---- MODULE Spec2Model ----
(***************************************************************************)
(* Model of the transaction mempool (mempool/src/lib.rs): the four         *)
(* co-indexed views of MempoolState, the admission pipeline                *)
(* push_transaction, the reconciler (evict_transactions,                   *)
(* restore_transactions, merge_transactions) and the three locks.          *)
(*                                                                         *)
(* The blockchain, the accounts and the filter are collaborators; they are *)
(* modelled as far as the mempool consumes them.                           *)
(***************************************************************************)
EXTENDS Integers, Sequences, FiniteSets, TLC

(***************************************************************************)
(* Program constants (lib.rs:880-890).  The caps are scaled down so that   *)
(* every cap is reached: the code compares against them and never uses     *)
(* their magnitude.                                                        *)
(***************************************************************************)
TRANSACTION_RELAY_FEE_MIN == 1

TRANSACTIONS_PER_SENDER_MAX == 2

FREE_TRANSACTIONS_PER_SENDER_MAX == 1

SIZE_MAX == 3

(***************************************************************************)
(* Bounds of the model.                                                    *)
(***************************************************************************)
\* longest chain explored (block_number of the head)
MaxHeight == 1

\* most transactions in one block
MaxBlockTxs == 2

\* most blocks reverted by one rebranch
MaxRevert == 1

\* MempoolConfig.filter_limit: capacity of the blacklist ring
FilterLimit == 1

(***************************************************************************)
(* Collaborator parameters.                                                *)
(***************************************************************************)
\* number of blocks a transaction stays valid / is remembered by the chain
ValidityWindow == 2

\* Rules: smallest value accepts_transaction lets through
RuleTxValue == 1

\* Rules: smallest recipient balance after the transaction
RuleRecipientBalance == 2

\* Rules: smallest sender balance after the transaction
RuleSenderBalance == 1

(***************************************************************************)
(* Transactions.  A transaction is immutable; the model draws its inputs   *)
(* from this table.  hash is the fingerprint (Blake2b of the content).     *)
(***************************************************************************)
Address == {"A", "B", "C", "D"}

Tx(h, s, r, st, rt, v, f, sz, vs, cc, sig) ==
    [hash |-> h, sender |-> s, recipient |-> r, sender_type |-> st,
     recipient_type |-> rt, value |-> v, fee |-> f, size |-> sz,
     validity_start_height |-> vs, contract_creation |-> cc, sig_ok |-> sig]

TxTable ==
    <<  Tx(101, "A", "B", "Basic", "Basic",    3, 3, 1, 0, FALSE, TRUE),  \* 1  cost 6, expires first
        Tx(102, "A", "B", "Basic", "Basic",    1, 2, 1, 1, FALSE, TRUE),  \* 2  cost 3
        Tx(103, "A", "C", "Basic", "Basic",    2, 1, 1, 1, FALSE, TRUE),  \* 3  cost 3
        Tx(104, "A", "B", "Basic", "Basic",    3, 0, 1, 1, FALSE, TRUE),  \* 4  free, cost 3
        Tx(105, "A", "D", "Basic", "Basic",    1, 0, 2, 1, FALSE, TRUE),  \* 5  free, recipient stays poor
        Tx(106, "A", "B", "Basic", "Basic",    1, 1, 2, 1, FALSE, TRUE),  \* 6  free (fee < size), cost 2
        Tx(107, "B", "A", "Basic", "Basic",    2, 2, 1, 1, FALSE, TRUE),  \* 7  cost 4
        Tx(108, "B", "D", "Basic", "Contract", 1, 1, 1, 1, FALSE, TRUE),  \* 8  to a contract
        Tx(109, "B", "D", "Basic", "Contract", 2, 1, 1, 1, TRUE,  TRUE),  \* 9  creates a contract, cost 3
        Tx(110, "C", "A", "Basic", "Basic",    1, 0, 1, 1, FALSE, TRUE),  \* 10 free, cost 1
        Tx(111, "A", "B", "Basic", "Basic",    0, 1, 1, 1, FALSE, FALSE), \* 11 value below the rule, bad signature
        Tx(112, "A", "A", "Basic", "Basic",    1, 1, 1, 1, FALSE, TRUE),  \* 12 sender = recipient
        Tx(113, "D", "A", "Basic", "Basic",    1, 1, 1, 1, FALSE, TRUE),  \* 13 sender has no account
        Tx(114, "A", "B", "Basic", "Basic",    5, 2, 1, 1, FALSE, TRUE)   \* 14 cost 7, leaves A with 1
    >>

\* the transactions the model submits, each one its own record
TxIds == {TxTable[k] : k \in 1..Len(TxTable)}

hash(i) == i.hash

\* fee_per_byte() < TRANSACTION_RELAY_FEE_MIN, without the division
IsFree(i) == i.fee < TRANSACTION_RELAY_FEE_MIN * i.size

\* Ord for Transaction: fee per byte, ties broken by the content
TxLess(i, j) ==
    \/ i.fee * j.size < j.fee * i.size
    \/ /\ i.fee * j.size = j.fee * i.size
       /\ hash(i) < hash(j)

\* last element of a BTreeSet (next_back on a fresh iterator)
Last(S) == CHOOSE x \in S : \A y \in S \ {x} : TxLess(y, x)

\* first element of a BTreeSet (next on a fresh iterator)
First(S) == CHOOSE x \in S : \A y \in S \ {x} : TxLess(x, y)

RECURSIVE Descending(_)
\* the elements of a BTreeSet as iter().rev() yields them
Descending(S) == IF S = {} THEN << >> ELSE <<Last(S)>> \o Descending(S \ {Last(S)})

RECURSIVE Ascending(_)
\* the elements of a BTreeSet as iter() yields them
Ascending(S) == IF S = {} THEN << >> ELSE <<First(S)>> \o Ascending(S \ {First(S)})

Range(s) == {s[k] : k \in 1..Len(s)}

(***************************************************************************)
(* Transaction module.                                                     *)
(***************************************************************************)
is_valid_at(i, h) ==
    /\ h >= i.validity_start_height
    /\ h < i.validity_start_height + ValidityWindow

\* intrinsic verification: signature and format (sender /= recipient)
verify_mut(i) == i.sig_ok /\ i.sender # i.recipient

(***************************************************************************)
(* Accounts.  An account is [kind, balance]; kind "None" is an absent      *)
(* account.  The operations work on an overlay (the write transaction).    *)
(***************************************************************************)
Genesis ==
    [a \in Address |->
        CASE a = "A" -> [kind |-> "Basic", balance |-> 8]
          [] a = "B" -> [kind |-> "Basic", balance |-> 7]
          [] a = "C" -> [kind |-> "Basic", balance |-> 2]
          [] OTHER   -> [kind |-> "None",  balance |-> 0]]

\* get_account(..) with the default the mempool uses for a missing recipient
account_type(acc, a) == IF acc[a].kind = "None" THEN "Basic" ELSE acc[a].kind

\* The staking contract is the account of kind "Staking"; of its state the
\* model keeps the set of validators.  A staking transaction names its
\* operation (the data of an incoming, the proof of an outgoing transaction)
\* and the validator it is about.
create_validator_ok(c, v) == v \notin c.validators

update_validator_ok(c, v) == v \in c.validators

drop_validator_ok(c, v) == v \in c.validators

\* traits.rs:54-227: the incoming side of the staking contract
staking_commit_incoming_ok(acc, i) ==
    CASE i.data = "CreateValidator" -> create_validator_ok(acc[i.recipient], i.validator)
      [] i.data = "UpdateValidator" -> update_validator_ok(acc[i.recipient], i.validator)
      [] OTHER -> FALSE

staking_commit_incoming_transaction(acc, i) ==
    [acc EXCEPT ![i.recipient] =
        [kind |-> "Staking", balance |-> @.balance + i.value,
         validators |-> IF i.data = "CreateValidator"
                        THEN @.validators \cup {i.validator}
                        ELSE @.validators]]

\* traits.rs:370-435: the outgoing side of the staking contract
staking_commit_outgoing_ok(acc, i) ==
    /\ i.data = "DropValidator"
    /\ drop_validator_ok(acc[i.sender], i.validator)
    /\ acc[i.sender].balance >= i.value + i.fee

staking_commit_outgoing_transaction(acc, i) ==
    [acc EXCEPT ![i.sender] =
        [kind |-> "Staking", balance |-> @.balance - (i.value + i.fee),
         validators |-> @.validators \ {i.validator}]]

commit_incoming_ok(acc, i) ==
    IF acc[i.recipient].kind = "Staking"
    THEN staking_commit_incoming_ok(acc, i)
    ELSE acc[i.recipient].kind # "Contract"

commit_incoming_transaction(acc, i) ==
    IF acc[i.recipient].kind = "Staking"
    THEN staking_commit_incoming_transaction(acc, i)
    ELSE [acc EXCEPT ![i.recipient] =
            [kind |-> "Basic", balance |-> @.balance + i.value]]

create_ok(acc, i) == acc[i.recipient].kind # "Contract"

create(acc, i) ==
    [acc EXCEPT ![i.recipient] =
        [kind |-> i.recipient_type, balance |-> @.balance + i.value]]

commit_outgoing_ok(acc, i) ==
    IF acc[i.sender].kind = "Staking"
    THEN staking_commit_outgoing_ok(acc, i)
    ELSE /\ acc[i.sender].kind # "None"
         /\ acc[i.sender].balance >= i.value + i.fee

commit_outgoing_transaction(acc, i) ==
    IF acc[i.sender].kind = "Staking"
    THEN staking_commit_outgoing_transaction(acc, i)
    ELSE [acc EXCEPT ![i.sender].balance = @ - (i.value + i.fee)]

\* recipient side of a transaction: create or commit_incoming
incoming_side_ok(acc, i) ==
    IF i.contract_creation THEN create_ok(acc, i) ELSE commit_incoming_ok(acc, i)

incoming_side(acc, i) ==
    IF i.contract_creation THEN create(acc, i) ELSE commit_incoming_transaction(acc, i)

(***************************************************************************)
(* State.                                                                  *)
(***************************************************************************)
VARIABLES
    chain,      \* the blocks above genesis, each the set of its transactions
    accounts,   \* blockchain.state().accounts at the head
    state,      \* MempoolState
    pending,    \* blockchain events delivered but not yet handled
    reverted,   \* the reverted blocks of the pending Rebranched event
    locks,      \* the blockchain read lock, mut_lock and the state lock
    lastOp,     \* the operation that ran last
    ret,        \* the ReturnCode of the last push_transaction ("None": not returned)
    events,     \* what the last operation sent to the notifier, in order
    query,      \* the arguments and the result of the last operation, if it was a query
    listener    \* what a listener of the notifier has made of the events so far

\* the variables of the mempool
mvars == <<chain, accounts, state, pending, reverted, locks, lastOp, ret, events,
           query, listener>>

(***************************************************************************)
(* The staking contract in the accounts tree, for its inherents.           *)
(***************************************************************************)
VARIABLES
    tree,       \* the staking contract and the validators in the accounts tree
    journal,    \* the inherents committed and not reverted, the last one last
    outcome     \* the last call of commit_inherent or revert_inherent

svars == <<tree, journal, outcome>>

vars == <<mvars, svars>>

(***************************************************************************)
(* Threads.  The calls of several threads, each at a position between the  *)
(* lock operations of its call, and the three locks they contend for.      *)
(***************************************************************************)
VARIABLES
    pc,           \* where each thread stands in its call
    todo,         \* the calls a thread has still to make, the current one first
    bc_readers,   \* the threads that hold a read guard of the blockchain lock
    mut_holders,  \* the threads that hold the guard of mut_lock
    st_guards,    \* the threads that hold a guard of the state lock, by mode
    stale         \* the threads whose view of the pool another thread changed

tvars == <<pc, todo, bc_readers, mut_holders, st_guards, stale>>

\* two threads that call the public methods and the thread that delivers the
\* blockchain events
Clients == {"c1", "c2"}

Threads == Clients \cup {"bc"}

ThreadsInit ==
    /\ pc = [t \in Threads |-> "idle"]
    /\ todo = [t \in Threads |-> << >>]
    /\ bc_readers = {}
    /\ mut_holders = {}
    /\ st_guards = [read |-> {}, upgradable |-> {}, write |-> {}]
    /\ stale = {}

(***************************************************************************)
(* Blockchain.                                                             *)
(***************************************************************************)
block_number == Len(chain)

contains_tx_in_validity_window(h) ==
    \E k \in 1..Len(chain) :
        /\ k > Len(chain) - ValidityWindow
        /\ \E i \in chain[k] : hash(i) = h

RECURSIVE ApplyTxs(_, _)
\* the accounts after the transactions of a block, NoAccounts if one fails
NoAccounts == [a \in {} |-> 0]

ApplyTxs(acc, txs) ==
    IF txs = << >> THEN acc
    ELSE LET i == Head(txs) IN
         IF \/ acc[i.sender].kind # i.sender_type
            \/ i.contract_creation # (account_type(acc, i.recipient) # i.recipient_type)
            \/ ~incoming_side_ok(acc, i)
         THEN NoAccounts
         ELSE LET acc1 == incoming_side(acc, i) IN
              IF ~commit_outgoing_ok(acc1, i) THEN NoAccounts
              ELSE ApplyTxs(commit_outgoing_transaction(acc1, i), Tail(txs))

RECURSIVE AccountsAfter(_, _)
\* the accounts after a sequence of blocks
AccountsAfter(acc, blocks) ==
    IF blocks = << >> THEN acc
    ELSE AccountsAfter(ApplyTxs(acc, Descending(Head(blocks))), Tail(blocks))

\* the transactions other nodes put into blocks
Minable == {TxTable[2], TxTable[4], TxTable[9]}

Blocks == {b \in SUBSET Minable : Cardinality(b) <= MaxBlockTxs}

\* a block the chain accepts on top of the blocks ch
BlockFits(ch, acc, b) ==
    /\ \A i \in b :
        /\ verify_mut(i)
        /\ is_valid_at(i, Len(ch) + 1)
        /\ ~\E k \in 1..Len(ch) : k > Len(ch) - ValidityWindow /\ i \in ch[k]
    /\ ApplyTxs(acc, Descending(b)) # NoAccounts

(***************************************************************************)
(* Filter.                                                                 *)
(***************************************************************************)
accepts_transaction(i) == i.value >= RuleTxValue

accepts_recipient_balance(i, old_balance, new_balance) ==
    new_balance >= RuleRecipientBalance

accepts_sender_balance(i, old_balance, new_balance) ==
    new_balance >= RuleSenderBalance

blacklisted(filter, h) == h \in Range(filter)

\* insert into the ring; the oldest entry is displaced when it is full
blacklist(filter, h) ==
    IF h \in Range(filter) THEN filter
    ELSE LET f == Append(filter, h) IN
         IF Len(f) > FilterLimit THEN Tail(f) ELSE f

(***************************************************************************)
(* Indexes.  A HashMap is a function whose domain is its key set.          *)
(***************************************************************************)
Bucket(m, a) == IF a \in DOMAIN m THEN m[a] ELSE {}

MapPut(m, a, v) == [x \in DOMAIN m \cup {a} |-> IF x = a THEN v ELSE m[x]]

MapDel(m, a) == [x \in DOMAIN m \ {a} |-> m[x]]

EmptyMap == [x \in {} |-> {}]

add_transaction(st, h, i) ==
    [st EXCEPT
        !.transactions_by_hash = MapPut(@, h, i),
        !.transactions_sorted_fee = @ \cup {i},
        !.transactions_by_recipient =
            MapPut(@, i.recipient, Bucket(@, i.recipient) \cup {i}),
        !.transactions_by_sender =
            MapPut(@, i.sender, Bucket(@, i.sender) \cup {i})]

\* RemoveFromBucket without the remove_key step
RemoveFromBucket_KeepsKey(m, a, i) ==
    IF a \in DOMAIN m THEN MapPut(m, a, m[a] \ {i}) ELSE m

\* one map of remove_transaction: take tx out of its bucket, drop an empty bucket
RemoveFromBucket(m, a, i) ==
    IF a \in DOMAIN m
    THEN IF m[a] \ {i} = {} THEN MapDel(m, a) ELSE MapPut(m, a, m[a] \ {i})
    ELSE m

\* remove_transaction that leaves the recipient index alone
remove_transaction_NoRecipient(st, i) ==
    [st EXCEPT
        !.transactions_by_hash = MapDel(@, hash(i)),
        !.transactions_sorted_fee = @ \ {i},
        !.transactions_by_sender = RemoveFromBucket(@, i.sender, i)]

remove_transaction(st, i) ==
    [st EXCEPT
        !.transactions_by_hash = MapDel(@, hash(i)),
        !.transactions_sorted_fee = @ \ {i},
        !.transactions_by_sender = RemoveFromBucket(@, i.sender, i),
        !.transactions_by_recipient = RemoveFromBucket(@, i.recipient, i)]

RECURSIVE RemoveAll(_, _)
\* for tx in txs { remove_transaction(state, tx) }
RemoveAll(st, txs) ==
    IF txs = << >> THEN st ELSE RemoveAll(remove_transaction(st, Head(txs)), Tail(txs))

\* Mempool::new
NewState ==
    [transactions_by_hash |-> EmptyMap,
     transactions_by_sender |-> EmptyMap,
     transactions_by_recipient |-> EmptyMap,
     transactions_sorted_fee |-> {},
     filter |-> << >>]

Unlocked == [blockchain |-> 0, mut_lock |-> "free", state |-> "free", waiting |-> "none"]

(***************************************************************************)
(* push_transaction (lib.rs:102-389).  The result of a call is             *)
(*   [ret, state, events, locks]: the ReturnCode ("None" when the call     *)
(*   never returns), the MempoolState it leaves, the events it sends and   *)
(*   the locks it still holds.                                             *)
(***************************************************************************)
Returns(code, st) == [ret |-> code, state |-> st, events |-> << >>, locks |-> Unlocked]

\* self.state.write() while the upgradable read guard of the same thread is
\* alive (lib.rs:235, lib.rs:322): the writer waits for the guard, for ever
BlocksOnWrite(st) ==
    [ret |-> "None", state |-> st, events |-> << >>,
     locks |-> [blockchain |-> 1, mut_lock |-> "push", state |-> "upgradable",
                waiting |-> "write"]]

RECURSIVE LeadingFree_FromTop(_)
\* LeadingFree that scans from the highest fee per byte downwards
LeadingFree_FromTop(txs) ==
    IF txs = << >> \/ ~IsFree(txs[Len(txs)]) THEN 0
    ELSE 1 + LeadingFree_FromTop(SubSeq(txs, 1, Len(txs) - 1))

RECURSIVE LeadingFree(_)
\* lib.rs:141-154: the free transactions the scan counts before it breaks
LeadingFree(txs) ==
    IF txs = << >> \/ ~IsFree(Head(txs)) THEN 0 ELSE 1 + LeadingFree(Tail(txs))

RECURSIVE ApplyHigher_NoCount(_, _, _, _)
\* ApplyHigher that forgets to count the transactions it applies
ApplyHigher_NoCount(db, txs, i, tx_count) ==
    IF txs = << >> \/ TxLess(Head(txs), i)
    THEN [ok |-> TRUE, db |-> db, tx_count |-> tx_count, rest |-> txs]
    ELSE IF ~commit_outgoing_ok(db, Head(txs))
         THEN [ok |-> FALSE, db |-> db, tx_count |-> tx_count, rest |-> txs]
         ELSE ApplyHigher_NoCount(commit_outgoing_transaction(db, Head(txs)), Tail(txs), i,
                                  tx_count)

RECURSIVE ApplyHigher(_, _, _, _)
\* lib.rs:268-289: apply the transactions that rank above the new one
ApplyHigher(db, txs, i, tx_count) ==
    IF txs = << >> \/ TxLess(Head(txs), i)
    THEN [ok |-> TRUE, db |-> db, tx_count |-> tx_count, rest |-> txs]
    ELSE IF ~commit_outgoing_ok(db, Head(txs))
         THEN [ok |-> FALSE, db |-> db, tx_count |-> tx_count, rest |-> txs]
         ELSE ApplyHigher(commit_outgoing_transaction(db, Head(txs)), Tail(txs), i,
                          tx_count + 1)

RECURSIVE CheckLower_NoCap(_, _, _, _)
\* CheckLower without the test against TRANSACTIONS_PER_SENDER_MAX
CheckLower_NoCap(db, txs, tx_count, txs_to_remove) ==
    IF txs = << >> THEN txs_to_remove
    ELSE IF commit_outgoing_ok(db, Head(txs))
         THEN CheckLower_NoCap(commit_outgoing_transaction(db, Head(txs)), Tail(txs),
                               tx_count + 1, txs_to_remove)
         ELSE CheckLower_NoCap(db, Tail(txs), tx_count, Append(txs_to_remove, Head(txs)))

RECURSIVE CheckLower_NoBalance(_, _, _, _)
\* CheckLower that keeps a transaction without applying its outgoing side
CheckLower_NoBalance(db, txs, tx_count, txs_to_remove) ==
    IF txs = << >> THEN txs_to_remove
    ELSE IF tx_count < TRANSACTIONS_PER_SENDER_MAX
         THEN CheckLower_NoBalance(db, Tail(txs), tx_count + 1, txs_to_remove)
         ELSE CheckLower_NoBalance(db, Tail(txs), tx_count, Append(txs_to_remove, Head(txs)))

RECURSIVE CheckLower(_, _, _, _)
\* lib.rs:330-349: the transactions that rank below; returns txs_to_remove
CheckLower(db, txs, tx_count, txs_to_remove) ==
    IF txs = << >> THEN txs_to_remove
    ELSE IF tx_count < TRANSACTIONS_PER_SENDER_MAX /\ commit_outgoing_ok(db, Head(txs))
         THEN CheckLower(commit_outgoing_transaction(db, Head(txs)), Tail(txs),
                         tx_count + 1, txs_to_remove)
         ELSE CheckLower(db, Tail(txs), tx_count, Append(txs_to_remove, Head(txs)))

\* TrimOne that drops the highest fee transaction
TrimOne_Highest(st) ==
    IF Cardinality(st.transactions_sorted_fee) > SIZE_MAX
    THEN <<Last(st.transactions_sorted_fee)>>
    ELSE << >>

\* lib.rs:368-373: drop the lowest fee transaction when the pool is too large
TrimOne(st) ==
    IF Cardinality(st.transactions_sorted_fee) > SIZE_MAX
    THEN <<First(st.transactions_sorted_fee)>>
    ELSE << >>

Evicted(txs) == [k \in 1..Len(txs) |-> [type |-> "Evicted", tx |-> txs[k]]]

\* Commit that tells the listeners about the evictions first
Commit_EvictedFirst(st, i, txs_to_remove) ==
    LET st1 == RemoveAll(add_transaction(st, hash(i), i), txs_to_remove)
        trimmed == TrimOne(st1)
        removed_transactions == txs_to_remove \o trimmed
    IN  [ret |-> "Accepted",
         state |-> RemoveAll(st1, trimmed),
         events |-> Evicted(removed_transactions) \o <<[type |-> "Added", tx |-> i]>>,
         locks |-> Unlocked]

\* lib.rs:352-388: the transaction is valid, add it
Commit(st, i, txs_to_remove) ==
    LET st1 == RemoveAll(add_transaction(st, hash(i), i), txs_to_remove)
        trimmed == TrimOne(st1)
        removed_transactions == txs_to_remove \o trimmed
    IN  [ret |-> "Accepted",
         state |-> RemoveAll(st1, trimmed),
         events |-> <<[type |-> "Added", tx |-> i]>> \o Evicted(removed_transactions),
         locks |-> Unlocked]

\* lib.rs:239-349: the sender side
SenderSide(st, i, db) ==
    LET sender == i.sender
        txs == Descending(Bucket(st.transactions_by_sender, sender))
    IN
    IF accounts[sender].kind = "None" THEN Returns("Invalid", st)
    ELSE IF accounts[sender].kind # i.sender_type THEN Returns("Invalid", st)
    ELSE LET higher == ApplyHigher(db, txs, i, 0) IN
    IF ~higher.ok THEN Returns("Invalid", st)
    ELSE IF higher.tx_count >= TRANSACTIONS_PER_SENDER_MAX THEN Returns("FeeTooLow", st)
    ELSE LET old_sender_balance == higher.db[sender].balance IN
    IF ~commit_outgoing_ok(higher.db, i) THEN Returns("Invalid", st)
    ELSE LET db2 == commit_outgoing_transaction(higher.db, i)
             new_sender_balance == db2[sender].balance
         IN
    IF ~accepts_sender_balance(i, old_sender_balance, new_sender_balance)
    THEN BlocksOnWrite(st)
    ELSE Commit(st, i, CheckLower(db2, higher.rest, higher.tx_count + 1, << >>))

\* RecipientSide that blacklists a transaction it refuses as Invalid
RecipientSide_Blacklists(st, i) ==
    LET recipient == i.recipient
        is_contract_creation == i.contract_creation
        is_type_change == account_type(accounts, recipient) # i.recipient_type
        old_balance == accounts[recipient].balance
    IN
    IF is_contract_creation # is_type_change
    THEN Returns("Invalid", [st EXCEPT !.filter = blacklist(@, hash(i))])
    ELSE IF ~incoming_side_ok(accounts, i) THEN Returns("Invalid", st)
    ELSE LET db == incoming_side(accounts, i)
             new_balance == db[recipient].balance
         IN
    IF ~accepts_recipient_balance(i, old_balance, new_balance)
    THEN BlocksOnWrite(st)
    ELSE SenderSide(st, i, db)

\* lib.rs:173-237: the recipient side
RecipientSide(st, i) ==
    LET recipient == i.recipient
        is_contract_creation == i.contract_creation
        is_type_change == account_type(accounts, recipient) # i.recipient_type
        old_balance == accounts[recipient].balance
    IN
    IF is_contract_creation # is_type_change THEN Returns("Invalid", st)
    ELSE IF ~incoming_side_ok(accounts, i) THEN Returns("Invalid", st)
    ELSE LET db == incoming_side(accounts, i)
             new_balance == db[recipient].balance
         IN
    IF ~accepts_recipient_balance(i, old_balance, new_balance)
    THEN BlocksOnWrite(st)
    ELSE SenderSide(st, i, db)

\* push_transaction without the look-up in transactions_by_hash
push_transaction_NoKnown(st, i) ==
    LET block_height == block_number + 1 IN
    IF ~accepts_transaction(i) \/ blacklisted(st.filter, hash(i))
    THEN Returns("Filtered", [st EXCEPT !.filter = blacklist(@, hash(i))])
    ELSE IF ~verify_mut(i) THEN Returns("Invalid", st)
    ELSE IF /\ IsFree(i)
            /\ LeadingFree(Ascending(Bucket(st.transactions_by_sender, i.sender)))
                 >= FREE_TRANSACTIONS_PER_SENDER_MAX
         THEN Returns("FeeTooLow", st)
    ELSE IF ~is_valid_at(i, block_height) THEN Returns("Invalid", st)
    ELSE IF contains_tx_in_validity_window(hash(i)) THEN Returns("Invalid", st)
    ELSE RecipientSide(st, i)

\* push_transaction that returns Filtered without blacklisting the hash
push_transaction_NoBlacklist(st, i) ==
    LET block_height == block_number + 1 IN
    IF ~accepts_transaction(i) \/ blacklisted(st.filter, hash(i))
    THEN Returns("Filtered", st)
    ELSE IF hash(i) \in DOMAIN st.transactions_by_hash THEN Returns("Known", st)
    ELSE IF ~verify_mut(i) THEN Returns("Invalid", st)
    ELSE IF /\ IsFree(i)
            /\ LeadingFree(Ascending(Bucket(st.transactions_by_sender, i.sender)))
                 >= FREE_TRANSACTIONS_PER_SENDER_MAX
         THEN Returns("FeeTooLow", st)
    ELSE IF ~is_valid_at(i, block_height) THEN Returns("Invalid", st)
    ELSE IF contains_tx_in_validity_window(hash(i)) THEN Returns("Invalid", st)
    ELSE RecipientSide(st, i)

push_transaction(st, i) ==
    LET block_height == block_number + 1 IN
    IF ~accepts_transaction(i) \/ blacklisted(st.filter, hash(i))
    THEN Returns("Filtered", [st EXCEPT !.filter = blacklist(@, hash(i))])
    ELSE IF hash(i) \in DOMAIN st.transactions_by_hash THEN Returns("Known", st)
    ELSE IF ~verify_mut(i) THEN Returns("Invalid", st)
    ELSE IF /\ IsFree(i)
            /\ LeadingFree(Ascending(Bucket(st.transactions_by_sender, i.sender)))
                 >= FREE_TRANSACTIONS_PER_SENDER_MAX
         THEN Returns("FeeTooLow", st)
    ELSE IF ~is_valid_at(i, block_height) THEN Returns("Invalid", st)
    ELSE IF contains_tx_in_validity_window(hash(i)) THEN Returns("Invalid", st)
    ELSE RecipientSide(st, i)

(***************************************************************************)
(* evict_transactions (lib.rs:539-630).                                    *)
(***************************************************************************)
\* the orders in which a HashMap may yield its keys
KeyOrders(m) ==
    {f \in [1..Cardinality(DOMAIN m) -> DOMAIN m] :
        \A j, k \in DOMAIN f : j # k => f[j] # f[k]}

\* EvictVerdict without the look-up in the validity window
EvictVerdict_NoWindow(i) ==
    IF ~is_valid_at(i, block_number + 1) THEN "Evicted"
    ELSE IF ~incoming_side_ok(accounts, i) THEN "Evicted"
    ELSE IF ~commit_outgoing_ok(incoming_side(accounts, i), i) THEN "Evicted"
    ELSE "Keep"

\* lib.rs:553-600: what the loop body decides for one transaction; the write
\* transaction is opened inside the body, so each transaction meets the
\* accounts of the head
EvictVerdict(i) ==
    IF ~is_valid_at(i, block_number + 1) THEN "Evicted"
    ELSE IF contains_tx_in_validity_window(hash(i)) THEN "Mined"
    ELSE IF ~incoming_side_ok(accounts, i) THEN "Evicted"
    ELSE IF ~commit_outgoing_ok(incoming_side(accounts, i), i) THEN "Evicted"
    ELSE "Keep"

RECURSIVE WalkSenders(_, _, _)
\* lib.rs:551-602: the transactions given verdict v, in the order of the walk
WalkSenders(st, order, v) ==
    IF order = << >> THEN << >>
    ELSE SelectSeq(Descending(st.transactions_by_sender[Head(order)]),
                   LAMBDA i : EvictVerdict(i) = v)
         \o WalkSenders(st, Tail(order), v)

Mined(txs) == [k \in 1..Len(txs) |-> [type |-> "Mined", tx |-> txs[k]]]

\* evict_transactions that reports txs_evicted and removes only txs_mined
evict_transactions_KeepsEvicted(st, order) ==
    LET txs_mined == WalkSenders(st, order, "Mined")
        txs_evicted == WalkSenders(st, order, "Evicted")
    IN  [state |-> RemoveAll(st, txs_mined),
         events |-> Mined(txs_mined) \o Evicted(txs_evicted)]

evict_transactions(st, order) ==
    LET txs_mined == WalkSenders(st, order, "Mined")
        txs_evicted == WalkSenders(st, order, "Evicted")
    IN  [state |-> RemoveAll(RemoveAll(st, txs_mined), txs_evicted),
         events |-> Mined(txs_mined) \o Evicted(txs_evicted)]

(***************************************************************************)
(* restore_transactions (lib.rs:632-758), merge_transactions (800-868).    *)
(***************************************************************************)
\* new_is_next that selects the restored transaction when the two compare equal
new_is_next_NewOnTie(old_txs, new_txs) ==
    IF new_txs = << >> THEN FALSE
    ELSE IF old_txs = << >> THEN TRUE
    ELSE ~TxLess(Head(new_txs), Head(old_txs))

\* lib.rs:819-825: txn.cmp(&txc) == Ordering::Greater
new_is_next(old_txs, new_txs) ==
    IF new_txs = << >> THEN FALSE
    ELSE IF old_txs = << >> THEN TRUE
    ELSE TxLess(Head(old_txs), Head(new_txs))

RECURSIVE merge_transactions_OldUncounted(_, _, _, _, _, _)
\* merge_transactions that counts in tx_count only the transactions it adds
merge_transactions_OldUncounted(db, old_txs, new_txs, tx_count, txs_to_add, txs_to_remove) ==
    IF old_txs = << >> /\ new_txs = << >>
    THEN [db |-> db, txs_to_add |-> txs_to_add, txs_to_remove |-> txs_to_remove]
    ELSE
    IF new_is_next(old_txs, new_txs)
    THEN LET tx == Head(new_txs) IN
         IF tx_count < TRANSACTIONS_PER_SENDER_MAX /\ commit_outgoing_ok(db, tx)
         THEN merge_transactions_OldUncounted(commit_outgoing_transaction(db, tx),
                  old_txs, Tail(new_txs), tx_count + 1, Append(txs_to_add, tx),
                  txs_to_remove)
         ELSE merge_transactions_OldUncounted(db, old_txs, Tail(new_txs), tx_count,
                  txs_to_add, txs_to_remove)
    ELSE LET tx == Head(old_txs) IN
         IF tx_count < TRANSACTIONS_PER_SENDER_MAX /\ commit_outgoing_ok(db, tx)
         THEN merge_transactions_OldUncounted(commit_outgoing_transaction(db, tx),
                  Tail(old_txs), new_txs, tx_count, txs_to_add, txs_to_remove)
         ELSE merge_transactions_OldUncounted(db, Tail(old_txs), new_txs, tx_count,
                  txs_to_add, Append(txs_to_remove, tx))

RECURSIVE merge_transactions(_, _, _, _, _, _)
\* old_txs and new_txs are walked from the back; the result carries the
\* write transaction on to the next sender
merge_transactions(db, old_txs, new_txs, tx_count, txs_to_add, txs_to_remove) ==
    IF old_txs = << >> /\ new_txs = << >>
    THEN [db |-> db, txs_to_add |-> txs_to_add, txs_to_remove |-> txs_to_remove]
    ELSE
    IF new_is_next(old_txs, new_txs)
    THEN LET tx == Head(new_txs) IN
         IF tx_count < TRANSACTIONS_PER_SENDER_MAX /\ commit_outgoing_ok(db, tx)
         THEN merge_transactions(commit_outgoing_transaction(db, tx), old_txs,
                  Tail(new_txs), tx_count + 1, Append(txs_to_add, tx), txs_to_remove)
         ELSE merge_transactions(db, old_txs, Tail(new_txs), tx_count, txs_to_add,
                  txs_to_remove)
    ELSE LET tx == Head(old_txs) IN
         IF tx_count < TRANSACTIONS_PER_SENDER_MAX /\ commit_outgoing_ok(db, tx)
         THEN merge_transactions(commit_outgoing_transaction(db, tx), Tail(old_txs),
                  new_txs, tx_count + 1, txs_to_add, txs_to_remove)
         ELSE merge_transactions(db, Tail(old_txs), new_txs, tx_count, txs_to_add,
                  Append(txs_to_remove, tx))

\* lib.rs:645-693: the reverted transactions that are staged, by sender
txs_by_sender(reverted_txs) ==
    LET staged == {i \in reverted_txs :
                      /\ is_valid_at(i, block_number + 1)
                      /\ ~contains_tx_in_validity_window(hash(i))
                      /\ incoming_side_ok(accounts, i)}
        senders == {i.sender : i \in staged}
    IN  [a \in senders |-> {i \in staged : i.sender = a}]

RECURSIVE AddAll(_, _)
\* for tx in txs_to_add { add_transaction(state, tx.hash(), tx) }
AddAll(st, txs) ==
    IF txs = << >> THEN st ELSE AddAll(add_transaction(st, hash(Head(txs)), Head(txs)), Tail(txs))

RECURSIVE MergeSenders(_, _, _, _)
\* lib.rs:702-729: r is [state, db, removed_transactions, restored_transactions]
MergeSenders(r, staged, order, k) ==
    IF k > Len(order) THEN r
    ELSE LET sender == order[k]
             m == merge_transactions(r.db,
                      Descending(Bucket(r.state.transactions_by_sender, sender)),
                      Descending(staged[sender]), 0, << >>, << >>)
         IN  MergeSenders(
                 [state |-> RemoveAll(AddAll(r.state, m.txs_to_add), m.txs_to_remove),
                  db |-> m.db,
                  removed_transactions |-> r.removed_transactions \o m.txs_to_remove,
                  restored_transactions |-> r.restored_transactions \o m.txs_to_add],
                 staged, order, k + 1)

\* TrimAll that drops one transaction however many are above SIZE_MAX
TrimAll_One(st) ==
    IF Cardinality(st.transactions_sorted_fee) > SIZE_MAX
    THEN <<First(st.transactions_sorted_fee)>>
    ELSE << >>

\* lib.rs:731-743: the lowest fee transactions above SIZE_MAX
TrimAll(st) ==
    LET size == Cardinality(st.transactions_sorted_fee) IN
    IF size > SIZE_MAX
    THEN SubSeq(Ascending(st.transactions_sorted_fee), 1, size - SIZE_MAX)
    ELSE << >>

Restored(txs) == [k \in 1..Len(txs) |-> [type |-> "Restored", tx |-> txs[k]]]

\* restore_transactions that notifies of the restored transactions first
restore_transactions_RestoredFirst(st, reverted_txs, order) ==
    LET staged == txs_by_sender(reverted_txs)
        merged == MergeSenders([state |-> st, db |-> accounts,
                                removed_transactions |-> << >>,
                                restored_transactions |-> << >>], staged, order, 1)
        trimmed == TrimAll(merged.state)
    IN  [state |-> RemoveAll(merged.state, trimmed),
         events |-> Restored(merged.restored_transactions)
                    \o Evicted(merged.removed_transactions \o trimmed)]

restore_transactions(st, reverted_txs, order) ==
    LET staged == txs_by_sender(reverted_txs)
        merged == MergeSenders([state |-> st, db |-> accounts,
                                removed_transactions |-> << >>,
                                restored_transactions |-> << >>], staged, order, 1)
        trimmed == TrimAll(merged.state)
    IN  [state |-> RemoveAll(merged.state, trimmed),
         events |-> Evicted(merged.removed_transactions \o trimmed)
                    \o Restored(merged.restored_transactions)]

(***************************************************************************)
(* A listener registered with the notifier (lib.rs:376-386, 616-628,       *)
(* 746-756).  From the events it is sent it keeps                          *)
(*   added        the fingerprints whose last event is TransactionAdded    *)
(*                (the latest of Added, Evicted and Mined),                *)
(*   added_again  the fingerprints it was told were added while they were  *)
(*                in added,                                                *)
(*   removed      the fingerprint of added that the last event took out,   *)
(*                if that was an Evicted or a Mined event,                 *)
(*   returned     whether the last event was an Added event for removed.   *)
(***************************************************************************)
NoEvents == [added |-> {}, added_again |-> {}, removed |-> {}, returned |-> FALSE]

RECURSIVE Listen(_, _)
Listen(l, evs) ==
    IF evs = << >> THEN l
    ELSE LET h == hash(Head(evs).tx)
             type == Head(evs).type
         IN  Listen(
                 IF type = "Added"
                 THEN [added |-> l.added \cup {h},
                       added_again |-> IF h \in l.added THEN l.added_again \cup {h}
                                                        ELSE l.added_again,
                       removed |-> {},
                       returned |-> h \in l.removed]
                 ELSE IF type \in {"Evicted", "Mined"} /\ h \in l.added
                 THEN [l EXCEPT !.added = @ \ {h}, !.removed = {h}, !.returned = FALSE]
                 ELSE [l EXCEPT !.removed = {}, !.returned = FALSE],
                 Tail(evs))

(***************************************************************************)
(* The queries (lib.rs:399-513).  A query reads the state under the read   *)
(* lock and returns a list of transactions.                                *)
(***************************************************************************)
\* largest max_count of a query
MaxCount == 2

\* largest min_fee_per_byte of get_transactions
MaxMinFee == 2

\* largest max_size of get_transactions_for_block
MaxSize == 3

\* most addresses in the set of get_transactions_by_addresses
MaxAddresses == 2

\* Transaction::MIN_SIZE, in the unit of the sizes of the table
MIN_SIZE == 1

\* the range of usize; it stands for 2^64 and is above every length of the model
UsizeRange == 1073741824

\* blockchain.staking_contract_address(); no transaction of the table
\* has the staking contract as its sender or its recipient
staking_contract_address == "S"

NoQuery == [args |-> << >>, txs |-> << >>, overflow |-> FALSE]

\* Iterator::take
Take(s, n) == SubSeq(s, 1, IF n < Len(s) THEN n ELSE Len(s))

\* tx.fee_per_byte() >= min_fee_per_byte, without the division
FeeAtLeast(tx, min_fee_per_byte) == tx.fee >= min_fee_per_byte * tx.size

\* lib.rs:399-412
get_transactions(st, max_count, min_fee_per_byte) ==
    Take(SelectSeq(Ascending(st.transactions_sorted_fee),
                   LAMBDA tx : FeeAtLeast(tx, min_fee_per_byte)),
         max_count)

RECURSIVE WalkForBlock_BreakOnMisfit(_, _, _, _, _)
\* WalkForBlock that stops at the first transaction that does not fit
WalkForBlock_BreakOnMisfit(db, rest, max_size, size, txs) ==
    IF rest = << >> THEN txs
    ELSE
    LET tx == Head(rest) IN
    IF size + tx.size <= max_size
    THEN WalkForBlock_BreakOnMisfit(db, Tail(rest), max_size, size + tx.size,
             Append(txs, tx))
    ELSE txs

RECURSIVE WalkForBlock(_, _, _, _, _)
\* lib.rs:432-483: the loop over transactions_sorted_fee.iter(); rest is what
\* the iterator has still to yield
WalkForBlock(db, rest, max_size, size, txs) ==
    IF rest = << >> THEN txs
    ELSE
    LET tx == Head(rest)
        from_staking == tx.sender = staking_contract_address
        to_staking == tx.recipient = staking_contract_address
    IN
    IF from_staking /\ ~commit_outgoing_ok(db, tx)
    THEN WalkForBlock(db, Tail(rest), max_size, size, txs)
    ELSE
    LET sent == IF from_staking THEN commit_outgoing_transaction(db, tx) ELSE db IN
    IF to_staking /\ ~commit_incoming_ok(sent, tx)
    THEN WalkForBlock(db, Tail(rest), max_size, size, txs)
    ELSE
    LET received == IF to_staking THEN commit_incoming_transaction(sent, tx) ELSE sent IN
    IF size + tx.size <= max_size
    THEN WalkForBlock(received, Tail(rest), max_size, size + tx.size, Append(txs, tx))
    ELSE IF (max_size - size) % UsizeRange < MIN_SIZE THEN txs
    ELSE WalkForBlock(received, Tail(rest), max_size, size, txs)

\* lib.rs:414-485
get_transactions_for_block(st, max_size) ==
    WalkForBlock(accounts, Ascending(st.transactions_sorted_fee), max_size, 0, << >>)

\* max_count - txs.len() in usize: the difference wraps around below 0 (a
\* build with overflow checks panics there instead)
Remaining(max_count, len) == (max_count - len) % UsizeRange

RECURSIVE WalkAddresses_FullBudget(_, _, _, _, _)
\* WalkAddresses that grants the received transactions the whole of max_count
WalkAddresses_FullBudget(st, addresses, max_count, txs, overflow) ==
    IF addresses = << >> THEN [txs |-> txs, overflow |-> overflow]
    ELSE
    LET address == Head(addresses)
        sent == Take(Descending(Bucket(st.transactions_by_sender, address)),
                     Remaining(max_count, Len(txs)))
        with_sent == txs \o sent
        received == Take(Descending(Bucket(st.transactions_by_recipient, address)),
                         max_count)
        with_received == with_sent \o received
        wrapped == overflow \/ Len(txs) > max_count
    IN
    IF Len(with_received) >= max_count
    THEN [txs |-> with_received, overflow |-> wrapped]
    ELSE WalkAddresses_FullBudget(st, Tail(addresses), max_count, with_received, wrapped)

RECURSIVE WalkAddresses(_, _, _, _, _)
\* lib.rs:495-511: the loop over the HashSet; addresses is the order in which
\* the set yields its elements, overflow whether a subtraction wrapped
WalkAddresses(st, addresses, max_count, txs, overflow) ==
    IF addresses = << >> THEN [txs |-> txs, overflow |-> overflow]
    ELSE
    LET address == Head(addresses)
        sent == Take(Descending(Bucket(st.transactions_by_sender, address)),
                     Remaining(max_count, Len(txs)))
        with_sent == txs \o sent
        received == Take(Descending(Bucket(st.transactions_by_recipient, address)),
                         Remaining(max_count, Len(with_sent)))
        with_received == with_sent \o received
        wrapped == overflow \/ Len(txs) > max_count \/ Len(with_sent) > max_count
    IN
    IF Len(with_received) >= max_count
    THEN [txs |-> with_received, overflow |-> wrapped]
    ELSE WalkAddresses(st, Tail(addresses), max_count, with_received, wrapped)

\* lib.rs:487-513
get_transactions_by_addresses(st, addresses, max_count) ==
    WalkAddresses(st, addresses, max_count, << >>, FALSE)

\* the orders in which a HashSet of at most MaxAddresses addresses may yield
\* its elements
AddressOrders ==
    UNION {{f \in [1..n -> Address] : \A j, k \in 1..n : j # k => f[j] # f[k]} :
              n \in 0..MaxAddresses}

(***************************************************************************)
(* The inherents of the staking contract (traits.rs:508-765).  The         *)
(* accounts tree holds the staking contract under its key and one account  *)
(* for each validator under the key of the validator:                      *)
(*   tree.contract    the StakingContract                                  *)
(*   tree.validators  a map from the address of a validator to its         *)
(*                    inactivity_flag, << >> for None and <<h>> for Some(h)*)
(* A receipt is << >> for None and <<r>> for Some(r).                      *)
(***************************************************************************)
\* the addresses of validators, in the order of Ord for Address
ValidatorOrder == <<"V", "W">>

Slots == {0, 1}

BLOCKS_PER_BATCH == 2

BATCHES_PER_EPOCH == 2

\* policy::batch_at
batch_at(block_number_) == (block_number_ + BLOCKS_PER_BATCH - 1) \div BLOCKS_PER_BATCH

\* policy::epoch_at
epoch_at(block_number_) ==
    (block_number_ + BLOCKS_PER_BATCH * BATCHES_PER_EPOCH - 1)
        \div (BLOCKS_PER_BATCH * BATCHES_PER_EPOCH)

\* SlashedSlot::SIZE, counted in fields: slot, validator_address, event_block
SlashedSlot_SIZE == 3

\* the serialization of a SlashedSlot and its inverse
serialize_slot(slot) == <<slot.slot, slot.validator_address, slot.event_block>>

deserialize_slot(data) ==
    [slot |-> data[1], validator_address |-> data[2], event_block |-> data[3]]

\* StakingContract::get_validator
get_validator(tree_, validator_address) ==
    IF validator_address \in DOMAIN tree_.validators
    THEN <<tree_.validators[validator_address]>>
    ELSE << >>

\* BTreeMap::entry(k).or_insert_with(BTreeSet::new).insert(v)
EntryInsert(m, k, v) == MapPut(m, k, Bucket(m, k) \cup {v})

Failed(code, tree_) == [result |-> code, receipt |-> << >>, tree |-> tree_]

\* traits.rs:537-613: InherentType::Slash
commit_slash(tree_, inherent, block_height) ==
    IF Len(inherent.data) # SlashedSlot_SIZE THEN Failed("InvalidInherent", tree_)
    ELSE
    LET slot == deserialize_slot(inherent.data)
        staking_contract == tree_.contract
    IN
    IF get_validator(tree_, slot.validator_address) = << >>
    THEN Failed("InvalidInherent", tree_)
    ELSE
    LET newly_parked == slot.validator_address \notin staking_contract.parked_set
        parked == [staking_contract EXCEPT !.parked_set = @ \cup {slot.validator_address}]
        to_previous == \/ epoch_at(slot.event_block) < epoch_at(block_height)
                       \/ batch_at(slot.event_block) < batch_at(block_height)
        disables == ~(epoch_at(slot.event_block) < epoch_at(block_height))
        newly_lost_rewards ==
            IF to_previous
            THEN slot.slot \notin staking_contract.previous_lost_rewards
            ELSE slot.slot \notin staking_contract.current_lost_rewards
        newly_disabled ==
            /\ disables
            /\ slot.slot \notin Bucket(staking_contract.current_disabled_slots,
                                       slot.validator_address)
        lost == IF to_previous
                THEN [parked EXCEPT !.previous_lost_rewards = @ \cup {slot.slot}]
                ELSE [parked EXCEPT !.current_lost_rewards = @ \cup {slot.slot}]
        disabled ==
            IF disables
            THEN [lost EXCEPT !.current_disabled_slots =
                                 EntryInsert(@, slot.validator_address, slot.slot)]
            ELSE lost
    IN  [result |-> "Ok",
         receipt |-> <<[newly_parked |-> newly_parked,
                        newly_disabled |-> newly_disabled,
                        newly_lost_rewards |-> newly_lost_rewards]>>,
         tree |-> [tree_ EXCEPT !.contract = disabled]]

RECURSIVE RetireParked(_, _, _, _)
\* traits.rs:628-653: the loop over the parked set; each validator is put
\* into the accounts tree as it is visited, and a missing one ends the call
RetireParked(tree_, staking_contract, parked, block_height) ==
    IF parked = << >>
    THEN [ok |-> TRUE, tree |-> tree_, staking_contract |-> staking_contract]
    ELSE
    LET validator_address == Head(parked) IN
    IF get_validator(tree_, validator_address) = << >>
    THEN [ok |-> FALSE, tree |-> tree_, staking_contract |-> staking_contract]
    ELSE RetireParked(
            [tree_ EXCEPT !.validators[validator_address] = <<block_height>>],
            [staking_contract EXCEPT !.active_validators = @ \ {validator_address}],
            Tail(parked), block_height)

\* commit_finalize that clears the parked set and the disabled slots at the
\* end of every batch
commit_finalize_EveryBatch(tree_, inherent, block_height) ==
    IF inherent.data # << >> THEN Failed("InvalidInherent", tree_)
    ELSE
    LET cleared == [tree_.contract EXCEPT
                        !.previous_lost_rewards = tree_.contract.current_lost_rewards,
                        !.current_lost_rewards = {}]
    IN
    IF inherent.ty \notin {"FinalizeBatch", "FinalizeEpoch"}
    THEN [result |-> "Ok", receipt |-> << >>, tree |-> [tree_ EXCEPT !.contract = cleared]]
    ELSE
    LET retired == RetireParked(tree_, cleared,
                       SelectSeq(ValidatorOrder, LAMBDA v : v \in cleared.parked_set),
                       block_height)
    IN
    IF ~retired.ok THEN Failed("InvalidInherent", retired.tree)
    ELSE [result |-> "Ok", receipt |-> << >>,
          tree |-> [retired.tree EXCEPT !.contract =
                        [retired.staking_contract EXCEPT
                            !.parked_set = {},
                            !.previous_disabled_slots =
                                retired.staking_contract.current_disabled_slots,
                            !.current_disabled_slots = EmptyMap]]]

\* traits.rs:615-668: InherentType::FinalizeBatch | InherentType::FinalizeEpoch
commit_finalize(tree_, inherent, block_height) ==
    IF inherent.data # << >> THEN Failed("InvalidInherent", tree_)
    ELSE
    LET cleared == [tree_.contract EXCEPT
                        !.previous_lost_rewards = tree_.contract.current_lost_rewards,
                        !.current_lost_rewards = {}]
    IN
    IF inherent.ty # "FinalizeEpoch"
    THEN [result |-> "Ok", receipt |-> << >>, tree |-> [tree_ EXCEPT !.contract = cleared]]
    ELSE
    LET retired == RetireParked(tree_, cleared,
                       SelectSeq(ValidatorOrder, LAMBDA v : v \in cleared.parked_set),
                       block_height)
    IN
    IF ~retired.ok THEN Failed("InvalidInherent", retired.tree)
    ELSE [result |-> "Ok", receipt |-> << >>,
          tree |-> [retired.tree EXCEPT !.contract =
                        [retired.staking_contract EXCEPT
                            !.parked_set = {},
                            !.previous_disabled_slots =
                                retired.staking_contract.current_disabled_slots,
                            !.current_disabled_slots = EmptyMap]]]

\* traits.rs:510-684
commit_inherent(tree_, inherent, block_height) ==
    IF inherent.value # 0 THEN Failed("InvalidInherent", tree_)
    ELSE CASE inherent.ty = "Slash" -> commit_slash(tree_, inherent, block_height)
           [] inherent.ty \in {"FinalizeBatch", "FinalizeEpoch"} ->
                commit_finalize(tree_, inherent, block_height)
           [] OTHER -> Failed("InvalidForTarget", tree_)

\* traits.rs:726-742: the slot is taken out of the entry of the validator and
\* an entry left empty is removed; get_mut(..).unwrap() on a missing entry
\* panics
remove_disabled(staking_contract, slot) ==
    LET left == Bucket(staking_contract.current_disabled_slots, slot.validator_address)
                    \ {slot.slot}
    IN  [staking_contract EXCEPT !.current_disabled_slots =
            IF left = {} THEN MapDel(@, slot.validator_address)
            ELSE MapPut(@, slot.validator_address, left)]

\* traits.rs:743-755
remove_lost_rewards(staking_contract, slot, block_height) ==
    IF \/ epoch_at(slot.event_block) < epoch_at(block_height)
       \/ batch_at(slot.event_block) < batch_at(block_height)
    THEN [staking_contract EXCEPT !.previous_lost_rewards = @ \ {slot.slot}]
    ELSE [staking_contract EXCEPT !.current_lost_rewards = @ \ {slot.slot}]

\* traits.rs:698-756: InherentType::Slash
revert_slash(tree_, inherent, block_height, receipt) ==
    IF receipt = << >> THEN [result |-> "InvalidReceipt", tree |-> tree_]
    ELSE IF Len(inherent.data) # SlashedSlot_SIZE
    THEN [result |-> "SerializingError", tree |-> tree_]
    ELSE
    LET r == receipt[1]
        slot == deserialize_slot(inherent.data)
        staking_contract == tree_.contract
    IN
    IF r.newly_parked /\ slot.validator_address \notin staking_contract.parked_set
    THEN [result |-> "InvalidInherent", tree |-> tree_]
    ELSE
    LET unparked == IF r.newly_parked
                    THEN [staking_contract EXCEPT !.parked_set = @ \ {slot.validator_address}]
                    ELSE staking_contract
        enables == /\ r.newly_disabled
                   /\ ~(epoch_at(slot.event_block) < epoch_at(block_height))
    IN
    IF enables /\ slot.validator_address \notin DOMAIN unparked.current_disabled_slots
    THEN [result |-> "panic", tree |-> tree_]
    ELSE
    LET enabled == IF enables THEN remove_disabled(unparked, slot) ELSE unparked
        found == IF r.newly_lost_rewards
                 THEN remove_lost_rewards(enabled, slot, block_height)
                 ELSE enabled
    IN  [result |-> "Ok", tree |-> [tree_ EXCEPT !.contract = found]]

\* revert_inherent that leaves the lost rewards as they are
revert_inherent_KeepsLost(tree_, inherent, block_height, receipt) ==
    IF inherent.ty = "Slash" /\ receipt # << >>
    THEN revert_slash(tree_, inherent, block_height,
                      <<[receipt[1] EXCEPT !.newly_lost_rewards = FALSE]>>)
    ELSE [result |-> "InvalidForTarget", tree |-> tree_]

\* traits.rs:686-775
revert_inherent(tree_, inherent, block_height, receipt) ==
    IF inherent.ty = "Slash"
    THEN revert_slash(tree_, inherent, block_height, receipt)
    ELSE [result |-> "InvalidForTarget", tree |-> tree_]

\* the staking contract of a chain with the given validators, none slashed
NewContract(validators) ==
    [parked_set |-> {},
     current_disabled_slots |-> EmptyMap,
     previous_disabled_slots |-> EmptyMap,
     current_lost_rewards |-> {},
     previous_lost_rewards |-> {},
     active_validators |-> validators]

NewTree(validators) ==
    [contract |-> NewContract(validators),
     validators |-> [v \in validators |-> << >>]]

NoCall ==
    [call |-> "none", inherent |-> [ty |-> "none", value |-> 0, data |-> << >>],
     block_height |-> 0, receipt |-> << >>, result |-> "none",
     prior |-> NewTree({}), original |-> NewTree({})]

\* the mempool takes no part in the inherents
ContractInit ==
    /\ tree = NewTree({})
    /\ journal = << >>
    /\ outcome = NoCall

(***************************************************************************)
(* The state machine.                                                      *)
(***************************************************************************)
Init ==
    /\ chain = << >>
    /\ accounts = Genesis
    /\ state = NewState
    /\ pending = << >>
    /\ reverted = {}
    /\ locks = Unlocked
    /\ lastOp = "new"
    /\ ret = "None"
    /\ events = << >>
    /\ query = NoQuery
    /\ listener = NoEvents
    /\ ThreadsInit
    /\ ContractInit

\* a thread calls push_transaction(i); the call takes the blockchain read
\* lock and mut_lock, so it starts when no mutating call is under way
PushCall(i) ==
    /\ locks.mut_lock = "free"
    /\ LET r == push_transaction(state, i) IN
        /\ state' = r.state
        /\ ret' = r.ret
        /\ events' = r.events
        /\ locks' = r.locks
    /\ lastOp' = "push"
    /\ query' = NoQuery
    /\ UNCHANGED <<chain, accounts, pending, reverted, tvars, svars>>

\* the call when no listener is registered with the notifier
Push(i) == PushCall(i) /\ UNCHANGED listener

\* on_blockchain_event, Extended | Finalized | EpochFinalized, and the second
\* half of Rebranched (lib.rs:527-533)
EvictCall ==
    /\ locks.mut_lock = "free"
    /\ pending # << >> /\ Head(pending) = "evict"
    /\ \E order \in KeyOrders(state.transactions_by_sender) :
        LET r == evict_transactions(state, order) IN
            /\ state' = r.state
            /\ events' = r.events
    /\ pending' = Tail(pending)
    /\ lastOp' = "evict"
    /\ ret' = "None"
    /\ query' = NoQuery
    /\ UNCHANGED <<chain, accounts, reverted, locks, tvars, svars>>

Evict == EvictCall /\ UNCHANGED listener

\* on_blockchain_event, first half of Rebranched (lib.rs:530-531)
RestoreCall ==
    /\ locks.mut_lock = "free"
    /\ pending # << >> /\ Head(pending) = "restore"
    /\ \E order \in KeyOrders(txs_by_sender(reverted)) :
        LET r == restore_transactions(state, reverted, order) IN
            /\ state' = r.state
            /\ events' = r.events
    /\ pending' = Tail(pending)
    /\ reverted' = {}
    /\ lastOp' = "restore"
    /\ ret' = "None"
    /\ query' = NoQuery
    /\ UNCHANGED <<chain, accounts, locks, tvars, svars>>

Restore == RestoreCall /\ UNCHANGED listener

\* the chain changes only when the blockchain lock has no reader and the
\* listeners of the previous event have returned
ChainFree == locks.blockchain = 0 /\ pending = << >>

\* the blockchain appends a block and sends Extended
Extend ==
    /\ ChainFree
    /\ Len(chain) < MaxHeight
    /\ \E b \in Blocks :
        /\ BlockFits(chain, accounts, b)
        /\ chain' = Append(chain, b)
        /\ accounts' = ApplyTxs(accounts, Descending(b))
    /\ pending' = <<"evict">>
    /\ lastOp' = "extend"
    /\ ret' = "None"
    /\ events' = << >>
    /\ query' = NoQuery
    /\ UNCHANGED <<state, reverted, locks, listener, tvars, svars>>

RECURSIVE ChainFits(_, _)
\* every block of blocks fits on top of its predecessors
ChainFits(ch, blocks) ==
    IF blocks = << >> THEN TRUE
    ELSE /\ BlockFits(ch, AccountsAfter(Genesis, ch), Head(blocks))
         /\ ChainFits(Append(ch, Head(blocks)), Tail(blocks))

\* the blockchain replaces its last n blocks and sends Rebranched
Rebranch ==
    /\ ChainFree
    /\ \E n \in 1..MaxRevert :
        /\ n <= Len(chain)
        /\ LET base == SubSeq(chain, 1, Len(chain) - n)
               old == SubSeq(chain, Len(chain) - n + 1, Len(chain))
           IN \E adopted \in [1..n -> Blocks] :
                /\ adopted # old
                /\ ChainFits(base, adopted)
                /\ chain' = base \o adopted
                /\ accounts' = AccountsAfter(Genesis, base \o adopted)
                /\ reverted' = UNION Range(old)
    /\ pending' = <<"restore", "evict">>
    /\ lastOp' = "rebranch"
    /\ ret' = "None"
    /\ events' = << >>
    /\ query' = NoQuery
    /\ UNCHANGED <<state, locks, listener, tvars, svars>>

Next ==
    \/ \E i \in TxIds : Push(i)
    \/ Evict
    \/ Restore
    \/ Extend
    \/ Rebranch

Spec == Init /\ [][Next]_vars

(***************************************************************************)
(* The same calls with a listener registered: every call hands the events  *)
(* it notifies to the listener (lib.rs:376-386, 616-628, 746-756).         *)
(***************************************************************************)
PushNotify(i) == PushCall(i) /\ listener' = Listen(listener, events')

EvictNotify == EvictCall /\ listener' = Listen(listener, events')

RestoreNotify == RestoreCall /\ listener' = Listen(listener, events')

NotifyNext ==
    \/ \E i \in TxIds : PushNotify(i)
    \/ EvictNotify
    \/ RestoreNotify
    \/ Extend
    \/ Rebranch

NotifySpec == Init /\ [][NotifyNext]_vars

(***************************************************************************)
(* The queries of a client between the pushes.  A query takes the read     *)
(* lock of the state (get_transactions_for_block also the read lock of the *)
(* blockchain) and changes nothing in the mempool.                         *)
(***************************************************************************)
\* a query notifies nothing and leaves the mempool and the chain alone
Asked ==
    /\ ret' = "None"
    /\ events' = << >>
    /\ UNCHANGED <<chain, accounts, state, pending, reverted, locks, listener, tvars, svars>>

GetTransactions ==
    \E max_count \in 0..MaxCount, min_fee_per_byte \in 0..MaxMinFee :
        /\ query' = [args |-> <<max_count, min_fee_per_byte>>,
                     txs |-> get_transactions(state, max_count, min_fee_per_byte),
                     overflow |-> FALSE]
        /\ lastOp' = "get_transactions"
        /\ Asked

GetTransactionsForBlock ==
    \E max_size \in 0..MaxSize :
        /\ query' = [args |-> <<max_size>>,
                     txs |-> get_transactions_for_block(state, max_size),
                     overflow |-> FALSE]
        /\ lastOp' = "get_transactions_for_block"
        /\ Asked

GetTransactionsByAddresses ==
    \E addresses \in AddressOrders, max_count \in 0..MaxCount :
        LET r == get_transactions_by_addresses(state, addresses, max_count) IN
            /\ query' = [args |-> <<addresses, max_count>>,
                         txs |-> r.txs, overflow |-> r.overflow]
            /\ lastOp' = "get_transactions_by_addresses"
            /\ Asked

QueryNext ==
    \/ \E i \in TxIds : Push(i)
    \/ GetTransactions
    \/ GetTransactionsForBlock
    \/ GetTransactionsByAddresses

QuerySpec == Init /\ [][QueryNext]_vars

(***************************************************************************)
(* Block assembly with transactions of the staking contract                *)
(* (lib.rs:422-473).  The staking contract sits at staking_contract_address*)
(* with some validators; staking transactions are pushed and blocks are    *)
(* asked for.                                                              *)
(***************************************************************************)
Validators == {"V", "W"}

StakingTx(h, s, r, st, rt, v, f, sz, d, val) ==
    [hash |-> h, sender |-> s, recipient |-> r, sender_type |-> st,
     recipient_type |-> rt, value |-> v, fee |-> f, size |-> sz,
     validity_start_height |-> 1, contract_creation |-> FALSE, sig_ok |-> TRUE,
     data |-> d, validator |-> val]

StakingTxIds ==
    {   StakingTx(201, "S", "B", "Staking", "Basic", 1, 1, 2, "DropValidator", "V"),
        StakingTx(202, "A", "S", "Basic", "Staking", 1, 1, 1, "UpdateValidator", "V"),
        StakingTx(203, "A", "S", "Basic", "Staking", 1, 2, 1, "CreateValidator", "W"),
        StakingTx(204, "B", "S", "Basic", "Staking", 1, 3, 1, "UpdateValidator", "W"),
        StakingTx(205, "S", "C", "Staking", "Basic", 1, 2, 1, "DropValidator", "W")
    }

\* the accounts of the head with the staking contract and its validators
StakingGenesis(validators) ==
    [a \in Address \cup {staking_contract_address} |->
        IF a = staking_contract_address
        THEN [kind |-> "Staking", balance |-> 6, validators |-> validators]
        ELSE Genesis[a]]

AssemblyInit ==
    /\ chain = << >>
    /\ \E validators \in SUBSET Validators : accounts = StakingGenesis(validators)
    /\ state = NewState
    /\ pending = << >>
    /\ reverted = {}
    /\ locks = Unlocked
    /\ lastOp = "new"
    /\ ret = "None"
    /\ events = << >>
    /\ query = NoQuery
    /\ listener = NoEvents
    /\ ThreadsInit
    /\ ContractInit

AssemblyNext ==
    \/ \E i \in StakingTxIds : Push(i)
    \/ GetTransactionsForBlock

AssemblySpec == AssemblyInit /\ [][AssemblyNext]_vars

(***************************************************************************)
(* The inherents of the staking contract: blocks commit inherents, and a   *)
(* rebranch reverts the Slash inherents of the reverted blocks, the last   *)
(* one first, at the height and with the receipt of their commit.  The     *)
(* journal holds the inherents committed and not reverted.                 *)
(***************************************************************************)
MaxInherents == 2

Heights == {5, 7}

EventBlocks == {4, 5, 7}

Inherent(ty, value, data) == [ty |-> ty, value |-> value, data |-> data]

Slashes ==
    {Inherent("Slash", 0,
              serialize_slot([slot |-> s, validator_address |-> a, event_block |-> e])) :
        s \in Slots, a \in Range(ValidatorOrder), e \in EventBlocks}

Inherents ==
    Slashes
    \cup {Inherent("Slash", 1, serialize_slot([slot |-> 0, validator_address |-> "V",
                                               event_block |-> 5])),
          Inherent("Slash", 0, <<0>>),
          Inherent("FinalizeBatch", 0, << >>), Inherent("FinalizeBatch", 0, <<0>>),
          Inherent("FinalizeEpoch", 0, << >>), Inherent("FinalizeEpoch", 1, << >>),
          Inherent("Reward", 0, << >>), Inherent("Reward", 1, << >>)}

\* the contract at the start: the validators that exist, and the parked set
\* either empty or holding every address that was slashed in the epoch
StakingInit ==
    /\ chain = << >>
    /\ accounts = Genesis
    /\ state = NewState
    /\ pending = << >>
    /\ reverted = {}
    /\ locks = Unlocked
    /\ lastOp = "new"
    /\ ret = "None"
    /\ events = << >>
    /\ query = NoQuery
    /\ listener = NoEvents
    /\ ThreadsInit
    /\ \E validators \in {{"V", "W"}, {"V"}}, parked \in {{}, {"V", "W"}} :
            tree = [NewTree(validators) EXCEPT !.contract.parked_set = parked]
    /\ journal = << >>
    /\ outcome = NoCall

\* a block commits an inherent
CommitInherent ==
    \E inherent \in Inherents, block_height \in Heights :
        /\ Len(journal) < MaxInherents
        /\ journal # << >> => block_height >= journal[Len(journal)].block_height
        /\ inherent \in Slashes => inherent.data[3] <= block_height
        /\ LET r == commit_inherent(tree, inherent, block_height) IN
            /\ tree' = r.tree
            /\ journal' =
                    IF r.result # "Ok" THEN journal
                    ELSE Append(journal, [inherent |-> inherent,
                                          block_height |-> block_height,
                                          receipt |-> r.receipt, before |-> tree])
            /\ outcome' = [call |-> "commit_inherent", inherent |-> inherent,
                           block_height |-> block_height, receipt |-> r.receipt,
                           result |-> r.result, prior |-> tree, original |-> tree]
        /\ UNCHANGED <<mvars, tvars>>

\* the last inherent is reverted, if it is a Slash (a finalized batch is
\* never reverted)
RevertInherent ==
    /\ journal # << >>
    /\ journal[Len(journal)].inherent.ty = "Slash"
    /\ LET e == journal[Len(journal)]
           r == revert_inherent(tree, e.inherent, e.block_height, e.receipt)
       IN  /\ tree' = r.tree
           /\ outcome' = [call |-> "revert_inherent", inherent |-> e.inherent,
                          block_height |-> e.block_height, receipt |-> e.receipt,
                          result |-> r.result, prior |-> tree, original |-> e.before]
    /\ journal' = SubSeq(journal, 1, Len(journal) - 1)
    /\ UNCHANGED <<mvars, tvars>>

\* revert_inherent is called for an inherent that is not a Slash
RevertOther ==
    \E inherent \in {Inherent("FinalizeBatch", 0, << >>),
                      Inherent("FinalizeEpoch", 0, << >>),
                      Inherent("Reward", 1, << >>)},
       block_height \in Heights,
       receipt \in {<< >>, <<[newly_parked |-> TRUE, newly_disabled |-> TRUE,
                               newly_lost_rewards |-> TRUE]>>} :
        /\ inherent.ty # "Slash"
        /\ LET r == revert_inherent(tree, inherent, block_height, receipt) IN
            /\ tree' = r.tree
            /\ outcome' = [call |-> "revert_inherent", inherent |-> inherent,
                           block_height |-> block_height, receipt |-> receipt,
                           result |-> r.result, prior |-> tree, original |-> tree]
        /\ UNCHANGED <<journal, mvars, tvars>>

StakingNext ==
    \/ CommitInherent
    \/ RevertInherent
    \/ RevertOther

StakingSpec == StakingInit /\ [][StakingNext]_svars

(***************************************************************************)
(* The calls at the grain of their lock operations.  A thread moves from   *)
(* one lock operation of its call to the next; which branch of the code it *)
(* takes is left open.                                                     *)
(***************************************************************************)
Mutators == {"push_transaction", "evict_transactions", "restore_transactions"}

\* the call a thread is in
call(t) == IF todo[t] = << >> THEN "none" ELSE Head(todo[t])

\* a client calls a public method; the blockchain delivers Extended (or
\* Finalized, EpochFinalized) or Rebranched to on_blockchain_event
Call(t) ==
    /\ pc[t] = "idle"
    /\ \E calls \in (IF t \in Clients
                     THEN {<<"push_transaction">>, <<"get_transactions_for_block">>}
                     ELSE {<<"evict_transactions">>,
                           <<"restore_transactions", "evict_transactions">>}) :
        todo' = [todo EXCEPT ![t] = calls]
    /\ pc' = [pc EXCEPT ![t] = "start"]
    /\ UNCHANGED <<bc_readers, mut_holders, st_guards, stale, vars>>

\* the call returns: the next call of the event handler starts, if there is one
Finish(t) ==
    /\ todo' = [todo EXCEPT ![t] = Tail(@)]
    /\ pc' = [pc EXCEPT ![t] = IF Tail(todo[t]) = << >> THEN "idle" ELSE "start"]

\* the guards of the blockchain lock and of mut_lock go out of scope
DropGuards(t) ==
    /\ bc_readers' = bc_readers \ {t}
    /\ mut_holders' = mut_holders \ {t}

\* the mutating calls of other threads that have read the pool and not returned
Viewers(t) ==
    {u \in Threads \ {t} :
        /\ call(u) \in Mutators
        /\ \/ pc[u] \in {"checking", "scanning", "wants_write_in_checks", "writing",
                         "blacklisting"}
           \/ pc[u] = "want_write" /\ call(u) # "restore_transactions"}

\* self.blockchain.read()
ReadBlockchain(t) ==
    /\ pc[t] = "start"
    /\ bc_readers' = bc_readers \cup {t}
    /\ pc' = [pc EXCEPT ![t] = "has_blockchain"]
    /\ UNCHANGED <<todo, mut_holders, st_guards, stale, vars>>

\* LockMut that does not wait for the holder of mut_lock
LockMut_NoWait(t) ==
    /\ pc[t] = "has_blockchain"
    /\ call(t) \in Mutators
    /\ mut_holders' = mut_holders \cup {t}
    /\ pc' = [pc EXCEPT ![t] =
                IF call(t) = "restore_transactions" THEN "want_write" ELSE "has_mut"]
    /\ UNCHANGED <<todo, bc_readers, st_guards, stale, vars>>

\* self.mut_lock.lock(); restore_transactions goes on to state.write()
LockMut(t) ==
    /\ pc[t] = "has_blockchain"
    /\ call(t) \in Mutators
    /\ mut_holders = {}
    /\ mut_holders' = mut_holders \cup {t}
    /\ pc' = [pc EXCEPT ![t] =
                IF call(t) = "restore_transactions" THEN "want_write" ELSE "has_mut"]
    /\ UNCHANGED <<todo, bc_readers, st_guards, stale, vars>>

\* push_transaction: self.state.upgradable_read()
UpgradableRead(t) ==
    /\ pc[t] = "has_mut"
    /\ call(t) = "push_transaction"
    /\ st_guards.upgradable = {} /\ st_guards.write = {}
    /\ st_guards' = [st_guards EXCEPT !.upgradable = {t}]
    /\ pc' = [pc EXCEPT ![t] = "checking"]
    /\ UNCHANGED <<todo, bc_readers, mut_holders, stale, vars>>

\* ReadState that is granted while another thread holds the write guard
ReadState_NoWait(t) ==
    /\ \/ pc[t] = "has_mut" /\ call(t) = "evict_transactions"
       \/ pc[t] = "has_blockchain" /\ call(t) = "get_transactions_for_block"
    /\ st_guards' = [st_guards EXCEPT !.read = @ \cup {t}]
    /\ pc' = [pc EXCEPT ![t] = "scanning"]
    /\ UNCHANGED <<todo, bc_readers, mut_holders, stale, vars>>

\* evict_transactions and get_transactions_for_block: self.state.read()
ReadState(t) ==
    /\ \/ pc[t] = "has_mut" /\ call(t) = "evict_transactions"
       \/ pc[t] = "has_blockchain" /\ call(t) = "get_transactions_for_block"
    /\ st_guards.write = {}
    /\ st_guards' = [st_guards EXCEPT !.read = @ \cup {t}]
    /\ pc' = [pc EXCEPT ![t] = "scanning"]
    /\ UNCHANGED <<todo, bc_readers, mut_holders, stale, vars>>

\* the read guard goes out of scope: evict_transactions goes on to
\* state.write(), get_transactions_for_block returns
EndScan(t) ==
    /\ pc[t] = "scanning"
    /\ st_guards' = [st_guards EXCEPT !.read = @ \ {t}]
    /\ IF call(t) = "evict_transactions"
       THEN /\ pc' = [pc EXCEPT ![t] = "want_write"]
            /\ UNCHANGED <<todo, bc_readers, mut_holders, stale>>
       ELSE /\ Finish(t)
            /\ DropGuards(t)
            /\ UNCHANGED stale
    /\ UNCHANGED vars

\* push_transaction, step 1 fails: RwLockUpgradableReadGuard::upgrade(state)
Upgrade(t) ==
    /\ pc[t] = "checking"
    /\ st_guards.read = {}
    /\ st_guards' = [st_guards EXCEPT !.upgradable = @ \ {t}, !.write = {t}]
    /\ pc' = [pc EXCEPT ![t] = "blacklisting"]
    /\ UNCHANGED <<todo, bc_readers, mut_holders, stale, vars>>

\* state.filter.blacklist(hash); return ReturnCode::Filtered
ReturnFiltered(t) ==
    /\ pc[t] = "blacklisting"
    /\ st_guards' = [st_guards EXCEPT !.write = @ \ {t}]
    /\ stale' = (stale \cup Viewers(t)) \ {t}
    /\ DropGuards(t)
    /\ Finish(t)
    /\ UNCHANGED vars

\* push_transaction returns Known, Invalid or FeeTooLow from inside the checks
ReturnRefused(t) ==
    /\ pc[t] = "checking"
    /\ st_guards' = [st_guards EXCEPT !.upgradable = @ \ {t}]
    /\ stale' = stale \ {t}
    /\ DropGuards(t)
    /\ Finish(t)
    /\ UNCHANGED vars

\* push_transaction, a balance policy fails: self.state.write() is called
\* with the upgradable guard still in scope
RejectBalance(t) ==
    /\ pc[t] = "checking"
    /\ pc' = [pc EXCEPT ![t] = "wants_write_in_checks"]
    /\ UNCHANGED <<todo, bc_readers, mut_holders, st_guards, stale, vars>>

\* push_transaction, every check passes: the upgradable guard goes out of scope
EndChecks(t) ==
    /\ pc[t] = "checking"
    /\ st_guards' = [st_guards EXCEPT !.upgradable = @ \ {t}]
    /\ pc' = [pc EXCEPT ![t] = "want_write"]
    /\ UNCHANGED <<todo, bc_readers, mut_holders, stale, vars>>

\* self.state.write(): granted when no guard of any mode is out
WriteState(t) ==
    /\ pc[t] \in {"want_write", "wants_write_in_checks"}
    /\ st_guards.read = {} /\ st_guards.upgradable = {} /\ st_guards.write = {}
    /\ st_guards' = [st_guards EXCEPT !.write = {t}]
    /\ pc' = [pc EXCEPT ![t] = IF pc[t] = "want_write" THEN "writing" ELSE "blacklisting"]
    /\ UNCHANGED <<todo, bc_readers, mut_holders, stale, vars>>

\* the indexes are changed and the write guard goes out of scope
EndWrite(t) ==
    /\ pc[t] = "writing"
    /\ st_guards' = [st_guards EXCEPT !.write = @ \ {t}]
    /\ stale' = stale \cup Viewers(t)
    /\ pc' = [pc EXCEPT ![t] = "notify"]
    /\ UNCHANGED <<todo, bc_readers, mut_holders, vars>>

\* self.notifier.read().notify(..) for each event, then the call returns
Return(t) ==
    /\ pc[t] = "notify"
    /\ stale' = stale \ {t}
    /\ DropGuards(t)
    /\ Finish(t)
    /\ UNCHANGED <<st_guards, vars>>

LockNext ==
    \E t \in Threads :
        \/ Call(t)
        \/ ReadBlockchain(t)
        \/ LockMut(t)
        \/ UpgradableRead(t)
        \/ ReadState(t)
        \/ EndScan(t)
        \/ Upgrade(t)
        \/ ReturnFiltered(t)
        \/ ReturnRefused(t)
        \/ RejectBalance(t)
        \/ EndChecks(t)
        \/ WriteState(t)
        \/ EndWrite(t)
        \/ Return(t)

LockSpec == Init /\ [][LockNext]_tvars

(***************************************************************************)
(* Properties.                                                             *)
(***************************************************************************)
by_hash == state.transactions_by_hash

by_sender == state.transactions_by_sender

by_recipient == state.transactions_by_recipient

sorted_fee == state.transactions_sorted_fee

RECURSIVE SumOfBuckets(_)
\* the sum of the bucket sizes of a map
SumOfBuckets(m) ==
    IF DOMAIN m = {} THEN 0
    ELSE LET a == CHOOSE x \in DOMAIN m : TRUE
         IN  Cardinality(m[a]) + SumOfBuckets(MapDel(m, a))

\* the last operation removed at least one transaction
RemovedSome == \E k \in 1..Len(events) : events[k].type \in {"Evicted", "Mined"}

FreeOf(a) == {i \in Bucket(by_sender, a) : IsFree(i)}

\* C1: (index coherence) after any sequence of push_transaction,
\* evict_transactions and restore_transactions the four indexes hold the same
\* transactions: every (hash, t) of by_hash has t in sorted_fee, in
\* by_sender[sender(t)] and in by_recipient[recipient(t)], every bucket entry is
\* in sorted_fee under its own address, and the four sizes agree.
C1_IndexCoherence ==
    /\ \A h \in DOMAIN by_hash :
        LET i == by_hash[h] IN
            /\ hash(i) = h
            /\ i \in sorted_fee
            /\ i \in Bucket(by_sender, i.sender)
            /\ i \in Bucket(by_recipient, i.recipient)
    /\ \A i \in sorted_fee : hash(i) \in DOMAIN by_hash /\ by_hash[hash(i)] = i
    /\ \A a \in DOMAIN by_sender : \A i \in by_sender[a] : i.sender = a /\ i \in sorted_fee
    /\ \A a \in DOMAIN by_recipient :
        \A i \in by_recipient[a] : i.recipient = a /\ i \in sorted_fee
    /\ Cardinality(DOMAIN by_hash) = Cardinality(sorted_fee)
    /\ Cardinality(sorted_fee) = SumOfBuckets(by_sender)
    /\ Cardinality(sorted_fee) = SumOfBuckets(by_recipient)

\* a restore that added and removed, leaving a pool of several transactions
C1_Witness ==
    /\ lastOp = "restore"
    /\ RemovedSome
    /\ \E k \in 1..Len(events) : events[k].type = "Restored"
    /\ Cardinality(sorted_fee) >= 2

\* C2: (per-sender cap) after any sequence of operations every sender bucket
\* holds at most TRANSACTIONS_PER_SENDER_MAX transactions.
C2_PerSenderCap ==
    \A a \in DOMAIN by_sender : Cardinality(by_sender[a]) <= TRANSACTIONS_PER_SENDER_MAX

\* an admission into a full bucket that displaced an entry of the same sender
C2_Witness ==
    /\ lastOp = "push" /\ ret = "Accepted"
    /\ Len(events) >= 2
    /\ events[2].tx.sender = events[1].tx.sender
    /\ Cardinality(Bucket(by_sender, events[1].tx.sender)) = TRANSACTIONS_PER_SENDER_MAX

\* C3: (global cap) after every push_transaction and every
\* restore_transactions sorted_fee holds at most SIZE_MAX transactions.
C3_GlobalCap == Cardinality(sorted_fee) <= SIZE_MAX

\* a restore that had to trim more than one transaction of a full pool
C3_Witness ==
    /\ lastOp = "restore"
    /\ Cardinality(sorted_fee) = SIZE_MAX
    /\ Cardinality({k \in 1..Len(events) : events[k].type = "Restored"}) >= 2
    /\ Cardinality({k \in 1..Len(events) : events[k].type = "Evicted"}) >= 2

\* C4: (free-transaction cap) after any sequence of operations, restore
\* included, no sender has more than FREE_TRANSACTIONS_PER_SENDER_MAX
\* transactions below the relay fee in the pool.
C4_FreeCap ==
    \A a \in DOMAIN by_sender : Cardinality(FreeOf(a)) <= FREE_TRANSACTIONS_PER_SENDER_MAX

\* C5: (no empty buckets) no address key of by_sender or by_recipient maps to
\* an empty set.
C5_NoEmptyBuckets ==
    /\ \A a \in DOMAIN by_sender : by_sender[a] # {}
    /\ \A a \in DOMAIN by_recipient : by_recipient[a] # {}

\* the last transaction of an address was removed, and its keys with it
C5_Witness ==
    /\ RemovedSome
    /\ \E k \in 1..Len(events) :
        /\ events[k].type \in {"Evicted", "Mined"}
        /\ events[k].tx.sender \notin DOMAIN by_sender
        /\ events[k].tx.recipient \notin DOMAIN by_recipient
    /\ sorted_fee # {}

RECURSIVE AllApply(_, _)
\* the outgoing sides of txs apply one after another to the accounts acc
AllApply(acc, txs) ==
    IF txs = << >> THEN TRUE
    ELSE /\ commit_outgoing_ok(acc, Head(txs))
         /\ AllApply(commit_outgoing_transaction(acc, Head(txs)), Tail(txs))

RECURSIVE AfterAll(_, _)
\* the accounts after the outgoing sides of txs
AfterAll(acc, txs) ==
    IF txs = << >> THEN acc
    ELSE AfterAll(commit_outgoing_transaction(acc, Head(txs)), Tail(txs))

\* C6: (serial-balance admission) whenever push_transaction(t) returns
\* Accepted, the transactions of sender(t) that remain in the pool can all be
\* applied as outgoing transactions, one after another in fee-descending order,
\* to the accounts of the current head.
C6_SerialBalance ==
    (lastOp = "push" /\ ret = "Accepted") =>
        AllApply(accounts, Descending(Bucket(by_sender, events[1].tx.sender)))

\* an admission that evicted a better-paying entry of its sender for lack of
\* balance and kept a lower one
C6_Witness ==
    /\ lastOp = "push" /\ ret = "Accepted"
    /\ Len(events) = 2
    /\ LET t == events[1].tx
           gone == events[2].tx
       IN  /\ gone.sender = t.sender
           /\ \E kept \in Bucket(by_sender, t.sender) : TxLess(kept, gone)

ReturnCode == {"FeeTooLow", "Invalid", "Accepted", "Known", "Filtered"}

\* C7: (admission runs to completion) every call of push_transaction returns
\* one of the five codes and has then released the state lock, the mutation
\* lock and the blockchain read lock; it never waits for a lock it holds.
C7_PushReturns ==
    lastOp = "push" => (ret \in ReturnCode /\ locks = Unlocked)

(***************************************************************************)
(* The steps of the admission pipeline as the order of the return codes    *)
(* names them, each evaluated on the pool before the call.                 *)
(***************************************************************************)
HigherOf(i) == {j \in Bucket(by_sender, i.sender) : TxLess(i, j)}

AfterIncoming(i) == incoming_side(accounts, i)

AfterHigher(i) == AfterAll(AfterIncoming(i), Descending(HigherOf(i)))

FailsFilter(i) == ~accepts_transaction(i) \/ blacklisted(state.filter, hash(i))

FailsDuplicate(i) == hash(i) \in DOMAIN by_hash

FailsVerify(i) == ~verify_mut(i)

FailsFreeQuota(i) ==
    IsFree(i) /\ Cardinality(FreeOf(i.sender)) >= FREE_TRANSACTIONS_PER_SENDER_MAX

FailsHeight(i) == ~is_valid_at(i, block_number + 1)

FailsMined(i) == contains_tx_in_validity_window(hash(i))

FailsRecipient(i) ==
    \/ i.contract_creation # (account_type(accounts, i.recipient) # i.recipient_type)
    \/ ~incoming_side_ok(accounts, i)

FailsRecipientPolicy(i) ==
    ~accepts_recipient_balance(i, accounts[i.recipient].balance,
                               AfterIncoming(i)[i.recipient].balance)

FailsSenderAccount(i) ==
    accounts[i.sender].kind = "None" \/ accounts[i.sender].kind # i.sender_type

FailsReplay(i) == ~AllApply(AfterIncoming(i), Descending(HigherOf(i)))

FailsSenderCap(i) == Cardinality(HigherOf(i)) >= TRANSACTIONS_PER_SENDER_MAX

FailsOutgoing(i) == ~commit_outgoing_ok(AfterHigher(i), i)

FailsSenderPolicy(i) ==
    ~accepts_sender_balance(i, AfterHigher(i)[i.sender].balance,
                            commit_outgoing_transaction(AfterHigher(i), i)[i.sender].balance)

\* steps 1-7 pass
PassesToRecipientPolicy(i) ==
    /\ ~FailsFilter(i) /\ ~FailsDuplicate(i) /\ ~FailsVerify(i) /\ ~FailsFreeQuota(i)
    /\ ~FailsHeight(i) /\ ~FailsMined(i) /\ ~FailsRecipient(i)

\* the recipient balance, or later the sender balance, is what the filter rejects
PolicyRejects(i) ==
    /\ PassesToRecipientPolicy(i)
    /\ \/ FailsRecipientPolicy(i)
       \/ /\ ~FailsSenderAccount(i) /\ ~FailsReplay(i) /\ ~FailsSenderCap(i)
          /\ ~FailsOutgoing(i)
          /\ FailsSenderPolicy(i)

\* the code of the first failing step
ExpectedCode(i) ==
    CASE FailsFilter(i) -> "Filtered"
      [] FailsDuplicate(i) -> "Known"
      [] FailsVerify(i) -> "Invalid"
      [] FailsFreeQuota(i) -> "FeeTooLow"
      [] FailsHeight(i) -> "Invalid"
      [] FailsMined(i) -> "Invalid"
      [] FailsRecipient(i) -> "Invalid"
      [] FailsRecipientPolicy(i) -> "Filtered"
      [] FailsSenderAccount(i) -> "Invalid"
      [] FailsReplay(i) -> "Invalid"
      [] FailsSenderCap(i) -> "FeeTooLow"
      [] FailsOutgoing(i) -> "Invalid"
      [] FailsSenderPolicy(i) -> "Filtered"
      [] OTHER -> "Accepted"

IndexesOf(st) ==
    <<st.transactions_by_hash, st.transactions_by_sender, st.transactions_by_recipient,
      st.transactions_sorted_fee>>

\* C8: (balance-policy rejection) when a transaction passes steps 1-7 and the
\* filter rejects the recipient balance or, after the outgoing side, the sender
\* balance, push_transaction blacklists the fingerprint, returns Filtered and
\* leaves the four indexes unchanged.
C8_PolicyRejection ==
    [][\A i \in TxIds :
        (Push(i) /\ PolicyRejects(i)) =>
            /\ ret' = "Filtered"
            /\ blacklisted(state'.filter, hash(i))
            /\ IndexesOf(state') = IndexesOf(state)]_vars

\* C9: (return code) the code push_transaction returns is the code of the
\* first failing step in the fixed order, and Accepted when no step fails.
C9_ReturnCode ==
    [][\A i \in TxIds : Push(i) => ret' = ExpectedCode(i)]_vars

\* C10: (frame of a refused admission) a push_transaction that returns Known,
\* Invalid or FeeTooLow leaves the four indexes and the blacklist unchanged and
\* emits no event; one that returns Filtered changes only the blacklist and
\* emits no event; the accounts are as before the call.
C10_RefusedFrame ==
    [][(lastOp' = "push" /\ ret' \in {"Known", "Invalid", "FeeTooLow", "Filtered"}) =>
        /\ IndexesOf(state') = IndexesOf(state)
        /\ events' = << >>
        /\ accounts' = accounts /\ chain' = chain
        /\ ret' # "Filtered" => state'.filter = state.filter]_vars

\* a refused admission with a pool that the account simulation had walked
C10_Witness ==
    /\ lastOp = "push" /\ ret = "Invalid"
    /\ Cardinality(Bucket(by_sender, "A")) >= 2
    /\ state.filter # << >>

\* the transaction the last push_transaction admitted
Admitted == events[1].tx

\* C11: (idempotent duplicate) if push_transaction(t) returned Accepted, an
\* immediately following push_transaction(t) returns Known and leaves the
\* four indexes and the blacklist unchanged.
C11_IdempotentDuplicate ==
    (lastOp = "push" /\ ret = "Accepted") =>
        LET again == push_transaction(state, Admitted)
        IN  again.ret = "Known" /\ again.state = state

\* no mutating call is under way, so a push_transaction can start
Idle == locks.mut_lock = "free"

\* filter, duplicate and intrinsic checks pass
ReachesFreeQuota(i) == ~FailsFilter(i) /\ ~FailsDuplicate(i) /\ ~FailsVerify(i)

\* C12: (free-quota trigger) a free transaction that passes the filter,
\* duplicate and intrinsic checks gets FeeTooLow whenever its sender already
\* has FREE_TRANSACTIONS_PER_SENDER_MAX free transactions in the pool, with or
\* without non-free ones beside them; with fewer it gets FeeTooLow only from
\* the per-sender cap.
C12_FreeQuota ==
    Idle =>
        \A i \in TxIds :
            (IsFree(i) /\ ReachesFreeQuota(i)) =>
                IF Cardinality(FreeOf(i.sender)) >= FREE_TRANSACTIONS_PER_SENDER_MAX
                THEN push_transaction(state, i).ret = "FeeTooLow"
                ELSE push_transaction(state, i).ret = "FeeTooLow" => FailsSenderCap(i)

\* a free transaction was refused while its sender had a free and a non-free
\* transaction in the pool
C12_Witness ==
    /\ lastOp = "push" /\ ret = "FeeTooLow"
    /\ \E a \in DOMAIN by_sender :
        /\ Cardinality(FreeOf(a)) = FREE_TRANSACTIONS_PER_SENDER_MAX
        /\ by_sender[a] \ FreeOf(a) # {}
        /\ \E i \in TxIds : i.sender = a /\ IsFree(i) /\ ReachesFreeQuota(i)

\* what push_transaction(i) would do in the current state
Outcome(i) == push_transaction(state, i)

\* the transactions a call took out of the pool
RemovedBy(i) == (sorted_fee \cup {i}) \ Outcome(i).state.transactions_sorted_fee

\* the bucket of the sender is full, its entries all apply, and i passes every
\* check of the pipeline and ranks above the lowest entry
Displaces(i) ==
    LET bucket == Bucket(by_sender, i.sender) IN
        /\ Cardinality(bucket) = TRANSACTIONS_PER_SENDER_MAX
        /\ AllApply(accounts, Descending(bucket))
        /\ ExpectedCode(i) = "Accepted"
        /\ TxLess(First(bucket), i)

\* Accepted, i is in the pool, only lowest has left it, the bucket is full,
\* and the events are Added(i), Evicted(lowest)
DisplacedLowest(i) ==
    LET bucket == Bucket(by_sender, i.sender)
        lowest == First(bucket)
        out == Outcome(i)
    IN  /\ out.ret = "Accepted"
        /\ i \in out.state.transactions_sorted_fee
        /\ RemovedBy(i) = {lowest}
        /\ Cardinality(Bucket(out.state.transactions_by_sender, i.sender))
             = TRANSACTIONS_PER_SENDER_MAX
        /\ out.events = <<[type |-> "Added", tx |-> i], [type |-> "Evicted", tx |-> lowest]>>

\* C13 as claimed: (displacement) when a sender bucket holds
\* TRANSACTIONS_PER_SENDER_MAX transactions that all still apply and a valid
\* new transaction of that sender ranks above the lowest entry, push_transaction
\* returns Accepted, the new transaction is in the pool, exactly the lowest
\* entry is removed, the bucket stays at the cap and the events are one Added
\* followed by one Evicted for the removed entry.
C13_Displacement ==
    Idle => \A i \in TxIds : Displaces(i) => DisplacedLowest(i)

\* the entries above the lowest still apply once the new transaction is
\* applied in its place among them
AppliesWithoutLowest(i) ==
    LET bucket == Bucket(by_sender, i.sender) IN
        AllApply(AfterIncoming(i), Descending((bucket \ {First(bucket)}) \cup {i}))

\* C13 amended: the displacement holds when, besides, the new transaction and
\* the bucket's entries other than the lowest can be applied one after another
\* in fee-descending order to the accounts of the head.
C13_DisplacementWithBalance ==
    Idle => \A i \in TxIds : (Displaces(i) /\ AppliesWithoutLowest(i)) => DisplacedLowest(i)

\* an admission into a full bucket whose lowest entry made room
C13_Witness ==
    /\ lastOp = "push" /\ ret = "Accepted"
    /\ Len(events) = 2
    /\ events[2].tx.sender = Admitted.sender
    /\ Admitted \in sorted_fee
    /\ Cardinality(Bucket(by_sender, Admitted.sender)) = TRANSACTIONS_PER_SENDER_MAX
    /\ \A kept \in Bucket(by_sender, Admitted.sender) : TxLess(events[2].tx, kept)
    /\ Cardinality({kept \in Bucket(by_sender, Admitted.sender) : TxLess(Admitted, kept)}) = 1

\* every check ahead of the per-sender cap passes
ReachesSenderCap(i) ==
    /\ ReachesFreeQuota(i) /\ ~FailsFreeQuota(i) /\ ~FailsHeight(i) /\ ~FailsMined(i)
    /\ ~FailsRecipient(i) /\ ~FailsRecipientPolicy(i) /\ ~FailsSenderAccount(i)
    /\ ~FailsReplay(i)

\* C14: (per-sender cap refusal) when TRANSACTIONS_PER_SENDER_MAX transactions
\* of the sender rank above a new transaction that reaches the cap check,
\* push_transaction returns FeeTooLow, does not add the new transaction and
\* removes none.
C14_CapRefusal ==
    Idle =>
        \A i \in TxIds :
            (ReachesSenderCap(i) /\ FailsSenderCap(i)) =>
                /\ Outcome(i).ret = "FeeTooLow"
                /\ Outcome(i).state = state
                /\ Outcome(i).events = << >>

\* a refusal at the cap: the bucket is full of transactions above the relay
\* fee, so the free quota cannot have been the reason
C14_Witness ==
    /\ lastOp = "push" /\ ret = "FeeTooLow"
    /\ \E a \in DOMAIN by_sender :
        /\ Cardinality(by_sender[a]) = TRANSACTIONS_PER_SENDER_MAX
        /\ FreeOf(a) = {}
        /\ \E i \in TxIds : i.sender = a /\ ReachesSenderCap(i) /\ FailsSenderCap(i)

\* the entries of the sender that the tail walk of push_transaction(i) evicts
SenderVictims(i) == {j \in RemovedBy(i) : j.sender = i.sender /\ j # i}

C16_EventOrder ==
    Idle =>
        \A i \in TxIds :
            LET out == Outcome(i)
                ev == out.events
            IN  IF out.ret = "Accepted"
                THEN /\ Len(ev) = 1 + Cardinality(RemovedBy(i))
                     /\ ev[1] = [type |-> "Added", tx |-> i]
                     /\ \A k \in 2..Len(ev) : ev[k].type = "Evicted"
                     /\ {ev[k].tx : k \in 2..Len(ev)} = RemovedBy(i)
                ELSE ev = << >>

\* an admission that removed two transactions
C16_Witness ==
    /\ lastOp = "push" /\ ret = "Accepted"
    /\ Len(events) = 3
    /\ events[1].type = "Added"
    /\ events[2].type = "Evicted" /\ events[3].type = "Evicted"
    /\ events[2].tx # events[3].tx

\* restore_transactions of a Rebranched event has returned and its
\* evict_transactions has not started
BetweenRestoreAndEvict == lastOp = "restore" /\ pending = <<"evict">>

\* C18: (atomic handling of a blockchain event) the handling of one blockchain
\* event completes fully before or starts fully after any push_transaction: no
\* push_transaction mutates the pool between the restore step and the evict
\* step of the same Rebranched event.
C18_EventAtomic ==
    [][BetweenRestoreAndEvict => (state' = state \/ lastOp' = "evict")]_vars

\* between self.mut_lock.lock() and the end of the call
InMutation(t) ==
    /\ call(t) \in Mutators
    /\ pc[t] \in {"has_mut", "checking", "scanning", "wants_write_in_checks", "want_write",
                  "writing", "blacklisting", "notify"}

\* C17: (mutual exclusion of mutators) at no time are two of push_transaction,
\* evict_transactions and restore_transactions between acquiring and releasing
\* the mutation lock, and the pool a call is about to change is the pool it
\* inspected: no other thread has changed it in between.
C17_MutualExclusion ==
    /\ \A t, u \in Threads : (InMutation(t) /\ InMutation(u)) => t = u
    /\ \A t \in Threads : pc[t] \in {"writing", "blacklisting"} => t \notin stale

\* a call changes the pool while the mutating calls of two other threads wait
C17_Witness ==
    \E t \in Threads :
        /\ pc[t] = "writing"
        /\ \A u \in Threads \ {t} : pc[u] = "has_blockchain" /\ call(u) \in Mutators

\* the guards of the state lock a thread holds
HoldsState(t) == t \in st_guards.read \cup st_guards.upgradable \cup st_guards.write

\* C19: (listeners are notified after the locks are released) at the moment
\* push_transaction, evict_transactions or restore_transactions delivers an
\* event to a listener the calling thread holds neither the mutation lock nor
\* the state lock.
C19_NotifyUnlocked ==
    \A t \in Threads : pc[t] = "notify" => (t \notin mut_holders /\ ~HoldsState(t))

\* C20: (lock order) a thread that holds mut_lock holds the blockchain read
\* lock, a thread that holds a state guard holds the locks that come before it
\* in the order, and no thread requests the state lock in a mode that
\* conflicts with a state guard it holds itself, so no thread waits for itself.
C20_LockOrder ==
    \A t \in Threads :
        /\ t \in mut_holders => t \in bc_readers
        /\ HoldsState(t) => t \in bc_readers
        /\ (HoldsState(t) /\ call(t) \in Mutators) => t \in mut_holders
        /\ pc[t] \in {"want_write", "wants_write_in_checks"} => ~HoldsState(t)

(***************************************************************************)
(* The reconciler: eviction (lib.rs:539-630).                              *)
(***************************************************************************)
\* the transactions an event list names under one event type
EventTxs(evs, type) == {evs[k].tx : k \in {n \in 1..Len(evs) : evs[n].type = type}}

\* the transaction is not valid at the height of the next block
ExpiredAtNext(i) == ~is_valid_at(i, block_number + 1)

\* the chain holds the fingerprint in its validity window
InWindow(i) == contains_tx_in_validity_window(hash(i))

\* the incoming side (or the contract creation) or the outgoing side fails
NoLongerApplies(i) ==
    \/ ~incoming_side_ok(accounts, i)
    \/ ~commit_outgoing_ok(incoming_side(accounts, i), i)

\* C21: evict_transactions, called on any pool, emits Evicted for exactly the
\* transactions that are not valid at head + 1 or that are valid, not in the
\* validity window and no longer apply, emits Mined for exactly the valid
\* ones in the validity window, removes exactly those transactions with one
\* event each, and leaves no transaction that is invalid at head + 1 or in
\* the validity window.
C21_EvictClassification ==
    Idle =>
        \A order \in KeyOrders(state.transactions_by_sender) :
            LET r == evict_transactions(state, order)
                mined == EventTxs(r.events, "Mined")
                evicted == EventTxs(r.events, "Evicted")
            IN  /\ evicted = {i \in sorted_fee :
                                 \/ ExpiredAtNext(i)
                                 \/ ~InWindow(i) /\ NoLongerApplies(i)}
                /\ mined = {i \in sorted_fee : ~ExpiredAtNext(i) /\ InWindow(i)}
                /\ \A k \in 1..Len(r.events) : r.events[k].type \in {"Mined", "Evicted"}
                /\ Len(r.events) = Cardinality(mined \cup evicted)
                /\ r.state.transactions_sorted_fee = sorted_fee \ (mined \cup evicted)
                /\ \A i \in r.state.transactions_sorted_fee :
                        ~ExpiredAtNext(i) /\ ~InWindow(i)

\* an eviction that reported a mined and an expired transaction and kept a
\* third one
C21_Witness ==
    /\ lastOp = "evict"
    /\ EventTxs(events, "Mined") # {}
    /\ \E i \in EventTxs(events, "Evicted") : ExpiredAtNext(i)
    /\ sorted_fee # {}

\* C22: (cumulative re-simulation) after evict_transactions, the transactions
\* that remain of every sender can all be applied one after another, in
\* fee-descending order, to the accounts of the head: each one was tested
\* against the state its higher-fee predecessors leave.
C22_CumulativeResimulation ==
    lastOp = "evict" =>
        \A a \in DOMAIN by_sender : AllApply(accounts, Descending(by_sender[a]))

\* C23: (reconciliation idempotence) after evict_transactions, with no chain
\* change and no push in between, a second evict_transactions removes
\* nothing, emits no event and leaves the four indexes as they are, whatever
\* the order in which it walks the senders.
C23_EvictIdempotent ==
    lastOp = "evict" =>
        \A order \in KeyOrders(state.transactions_by_sender) :
            LET again == evict_transactions(state, order) IN
                /\ again.events = << >>
                /\ again.state = state

\* an eviction that removed a part of the pool
C23_Witness ==
    /\ lastOp = "evict"
    /\ events # << >>
    /\ Cardinality(sorted_fee) >= 2

(***************************************************************************)
(* The reconciler: restoring (lib.rs:632-758).                             *)
(***************************************************************************)
\* restore_transactions is the next step of a Rebranched event
RestorePending == Idle /\ pending # << >> /\ Head(pending) = "restore"

\* valid at the new head + 1, not in the validity window of the new chain, and
\* both sides apply to the accounts of the new head
StillApplies(i) == ~ExpiredAtNext(i) /\ ~InWindow(i) /\ ~NoLongerApplies(i)

\* the cap of the sender or the cap of the pool is reached in st
CapReached(st, a) ==
    \/ Cardinality(Bucket(st.transactions_by_sender, a)) >= TRANSACTIONS_PER_SENDER_MAX
    \/ Cardinality(st.transactions_sorted_fee) >= SIZE_MAX

\* the events of evs that tell type of transaction i
EventsOf(evs, type, i) == {k \in 1..Len(evs) : evs[k].type = type /\ evs[k].tx = i}

\* the pool and the reverted transactions of the sender of i that rank above
\* i, and i itself, highest fee first
WithHigher(i) ==
    Descending({j \in Bucket(by_sender, i.sender) \cup reverted :
                   /\ j.sender = i.sender
                   /\ j = i \/ TxLess(i, j)})

\* C24: (rebranch round-trip) when restore_transactions handles a Rebranched
\* event, every transaction of the reverted blocks that is valid at the new
\* head + 1, is not in the validity window of the new chain and still applies
\* (its incoming side, and its outgoing side after the higher-fee
\* transactions of its sender) is in the pool afterwards, up to the caps,
\* with one Restored event if it was not in the pool before; every pool
\* transaction that revalidates in the same way stays, up to the caps.
C24_RoundTrip ==
    RestorePending =>
        \A order \in KeyOrders(txs_by_sender(reverted)) :
            LET r == restore_transactions(state, reverted, order) IN
                /\ \A i \in reverted :
                        (StillApplies(i) /\ AllApply(accounts, WithHigher(i))) =>
                            \/ /\ i \in r.state.transactions_sorted_fee
                               /\ i \notin sorted_fee =>
                                    Cardinality(EventsOf(r.events, "Restored", i)) = 1
                            \/ CapReached(r.state, i.sender)
                /\ \A j \in sorted_fee :
                        (StillApplies(j) /\ AllApply(accounts, WithHigher(j))) =>
                            \/ j \in r.state.transactions_sorted_fee
                            \/ CapReached(r.state, j.sender)

(***************************************************************************)
(* The blacklist (lib.rs:116-125).                                         *)
(***************************************************************************)
\* C25: (blacklist persistence) a push_transaction that returns Filtered
\* leaves the fingerprint in the blacklist, and while a fingerprint is in the
\* blacklist every push_transaction of it returns Filtered, whether or not
\* the transaction passes intrinsic verification, leaves the indexes as they
\* are and keeps the fingerprint blacklisted.
C25_BlacklistPersistence ==
    Idle =>
        \A i \in TxIds :
            /\ Outcome(i).ret = "Filtered" =>
                    blacklisted(Outcome(i).state.filter, hash(i))
            /\ blacklisted(state.filter, hash(i)) =>
                    /\ Outcome(i).ret = "Filtered"
                    /\ blacklisted(Outcome(i).state.filter, hash(i))
                    /\ IndexesOf(Outcome(i).state) = IndexesOf(state)

\* a push was Filtered, and the fingerprint it blacklisted belongs to a
\* transaction that fails intrinsic verification; the pool is not empty
C25_Witness ==
    /\ lastOp = "push" /\ ret = "Filtered"
    /\ \E i \in TxIds : blacklisted(state.filter, hash(i)) /\ ~verify_mut(i)
    /\ sorted_fee # {}

(***************************************************************************)
(* Event accounting.                                                       *)
(***************************************************************************)
\* C26: (event accounting) in the events a listener is sent over a run, no
\* Added event for a fingerprint follows an earlier Added event for it
\* without an Evicted or a Mined event for that fingerprint in between.
C26_EventAccounting == listener.added_again = {}

\* a fingerprint was added, removed by an Evicted or a Mined event and then
\* added again by the last push
C26_Witness ==
    /\ lastOp = "push" /\ ret = "Accepted"
    /\ listener.returned
    /\ hash(Admitted) \in listener.added

(***************************************************************************)
(* The queries.                                                            *)
(***************************************************************************)
\* the list is in fee-descending order
FeeDescending(txs) == \A k \in 1..Len(txs) - 1 : TxLess(txs[k + 1], txs[k])

RECURSIVE SizeOf(_)
\* the serialized size of a set of transactions
SizeOf(S) == IF S = {} THEN 0 ELSE LET t == CHOOSE x \in S : TRUE IN t.size + SizeOf(S \ {t})

\* C27: (block assembly order) the list get_transactions_for_block returns
\* is in fee-descending order, and a pool transaction is left out only when
\* it does not fit next to the returned transactions that rank above it.
C27_BlockAssemblyOrder ==
    lastOp = "get_transactions_for_block" =>
        /\ FeeDescending(query.txs)
        /\ \A t \in sorted_fee \ Range(query.txs) :
                SizeOf({u \in Range(query.txs) : TxLess(t, u)}) + t.size > query.args[1]

\* the pool transactions that meet the threshold of get_transactions
MeetThreshold(min_fee_per_byte) == {t \in sorted_fee : FeeAtLeast(t, min_fee_per_byte)}

\* C28: (top-N query) get_transactions(max_count, min_fee_per_byte) returns
\* at most max_count transactions of the pool, each once and each with a fee
\* per byte of min_fee_per_byte or more, as many as max_count allows, and
\* every transaction that meets the threshold and is not returned ranks below
\* every returned one.
C28_TopN ==
    lastOp = "get_transactions" =>
        LET max_count == query.args[1]
            eligible == MeetThreshold(query.args[2])
            returned == Range(query.txs)
        IN  /\ Len(query.txs) <= max_count
            /\ Cardinality(returned) = Len(query.txs)
            /\ returned \subseteq eligible
            /\ Len(query.txs) = max_count \/ returned = eligible
            /\ \A t \in eligible \ returned : \A u \in returned : TxLess(t, u)

RECURSIVE SentThenReceived(_)
\* for each address in turn, the transactions it sent, highest fee first, and
\* then the transactions it received, highest fee first
SentThenReceived(addresses) ==
    IF addresses = << >> THEN << >>
    ELSE Descending(Bucket(by_sender, Head(addresses)))
         \o Descending(Bucket(by_recipient, Head(addresses)))
         \o SentThenReceived(Tail(addresses))

\* C29: (address query) get_transactions_by_addresses(addresses, max_count)
\* returns at most max_count transactions and no subtraction of the remaining
\* budget wraps; the list is the first max_count entries of: for each address
\* in turn, its sent transactions highest fee first, then its received
\* transactions highest fee first; every returned transaction has a queried
\* address as its sender or its recipient.
C29_AddressQuery ==
    lastOp = "get_transactions_by_addresses" =>
        LET addresses == query.args[1]
            max_count == query.args[2]
        IN  /\ ~query.overflow
            /\ Len(query.txs) <= max_count
            /\ query.txs = Take(SentThenReceived(addresses), max_count)
            /\ \A t \in Range(query.txs) :
                    t.sender \in Range(addresses) \/ t.recipient \in Range(addresses)

\* a query for two addresses that used up max_count with a sent and a
\* received transaction and left transactions of the addresses out
C29_Witness ==
    /\ lastOp = "get_transactions_by_addresses"
    /\ Len(query.args[1]) = 2
    /\ Len(query.txs) = query.args[2]
    /\ Len(SentThenReceived(query.args[1])) > query.args[2]
    /\ \E k \in 1..Len(query.txs) : query.txs[k].sender = query.args[1][1]
    /\ \E k \in 1..Len(query.txs) : query.txs[k].recipient = query.args[1][1]

(***************************************************************************)
(* The merge rule of restore_transactions.                                 *)
(***************************************************************************)
\* the existing ("old") and the restored ("new") transactions of sender a,
\* each with its origin
Turns(a) ==
    {[tx |-> t, origin |-> "old"] : t \in Bucket(by_sender, a)}
    \cup {[tx |-> t, origin |-> "new"] : t \in Bucket(txs_by_sender(reverted), a)}

\* turn x comes before turn y: higher fee first, and of a transaction that is
\* both in the pool and restored the existing one first
TurnBefore(x, y) ==
    \/ TxLess(y.tx, x.tx)
    \/ x.tx = y.tx /\ x.origin = "old" /\ y.origin = "new"

RECURSIVE TurnOrder(_)
TurnOrder(S) ==
    IF S = {} THEN << >>
    ELSE LET x == CHOOSE x \in S : \A y \in S \ {x} : TurnBefore(x, y)
         IN  <<x>> \o TurnOrder(S \ {x})

RECURSIVE MergeRule(_, _, _)
\* what the rule of the claim decides for the turns, with the counter k and
\* the accounts acc the earlier turns leave
MergeRule(turns, acc, k) ==
    IF turns = << >> THEN [removed |-> {}, added |-> {}]
    ELSE LET x == Head(turns)
             taken == k < TRANSACTIONS_PER_SENDER_MAX /\ commit_outgoing_ok(acc, x.tx)
             rest == IF taken
                     THEN MergeRule(Tail(turns), commit_outgoing_transaction(acc, x.tx), k + 1)
                     ELSE MergeRule(Tail(turns), acc, k)
         IN  [removed |-> IF ~taken /\ x.origin = "old"
                          THEN rest.removed \cup {x.tx} ELSE rest.removed,
              added |-> IF taken /\ x.origin = "new"
                        THEN rest.added \cup {x.tx} ELSE rest.added]

\* what the rule decides for all the senders with restored transactions
RuleRemoved ==
    UNION {MergeRule(TurnOrder(Turns(a)), accounts, 0).removed :
              a \in DOMAIN txs_by_sender(reverted)}

RuleAdded ==
    UNION {MergeRule(TurnOrder(Turns(a)), accounts, 0).added :
              a \in DOMAIN txs_by_sender(reverted)}

\* the lowest-fee transactions of S above SIZE_MAX
AboveSizeMax(S) ==
    IF Cardinality(S) > SIZE_MAX
    THEN Range(SubSeq(Ascending(S), 1, Cardinality(S) - SIZE_MAX))
    ELSE {}

\* C30: (merge rule) restore_transactions visits the existing and the restored
\* transactions of each sender that has restored ones together, highest fee
\* first, with one counter k; it adds, with one Restored event each, exactly
\* the restored transactions that find k below TRANSACTIONS_PER_SENDER_MAX and
\* whose outgoing side applies, and drops the other restored ones with no
\* event; it removes, with one Evicted event each, exactly the existing
\* transactions that find k at the cap or whose outgoing side fails, and
\* after them only what is above SIZE_MAX.
C30_MergeRule ==
    RestorePending =>
        \A order \in KeyOrders(txs_by_sender(reverted)) :
            LET r == restore_transactions(state, reverted, order)
                merged == (sorted_fee \ RuleRemoved) \cup RuleAdded
            IN  /\ EventTxs(r.events, "Restored") = RuleAdded
                /\ EventTxs(r.events, "Evicted") = RuleRemoved \cup AboveSizeMax(merged)
                /\ Len(r.events)
                     = Cardinality(RuleAdded) + Cardinality(RuleRemoved \cup AboveSizeMax(merged))
                /\ r.state.transactions_sorted_fee = merged \ AboveSizeMax(merged)

\* a restore that added a restored transaction and removed an existing one of
\* the same sender, with the pool below SIZE_MAX
C30_Witness ==
    /\ lastOp = "restore"
    /\ Cardinality(sorted_fee) < SIZE_MAX
    /\ \E t \in EventTxs(events, "Restored"), u \in EventTxs(events, "Evicted") :
        /\ t.sender = u.sender
        /\ t \in sorted_fee

(***************************************************************************)
(* The tie of the merge (lib.rs:819-825).                                  *)
(***************************************************************************)
RECURSIVE From(_, _)
\* what is left of a descending walk when it arrives at transaction i
From(txs, i) ==
    IF txs = << >> \/ Head(txs) = i THEN txs ELSE From(Tail(txs), i)

\* the transactions that are both in the pool and staged by the pending
\* restore: the merge of their sender has them at both pointers at once
TiedInMerge ==
    {i \in sorted_fee :
        /\ i.sender \in DOMAIN txs_by_sender(reverted)
        /\ i \in txs_by_sender(reverted)[i.sender]}

\* C31: (merge tie-break, as claimed) when the current restored transaction
\* and the current existing transaction of the merge compare equal, the
\* restored one is selected and processed first.
C31_TieNewFirst ==
    RestorePending =>
        \A i \in TiedInMerge :
            new_is_next(
                From(Descending(Bucket(by_sender, i.sender)), i),
                From(Descending(txs_by_sender(reverted)[i.sender]), i))

\* C31: (merge tie-break, amended) when the current restored transaction and
\* the current existing transaction of the merge compare equal, the existing
\* one is selected and processed first.
C31_TieOldFirst ==
    RestorePending =>
        \A i \in TiedInMerge :
            ~new_is_next(
                From(Descending(Bucket(by_sender, i.sender)), i),
                From(Descending(txs_by_sender(reverted)[i.sender]), i))

\* a restore is pending for a transaction that was pushed again meanwhile
C31_Witness == RestorePending /\ TiedInMerge # {}

(***************************************************************************)
(* The events of a restore (lib.rs:746-757).                               *)
(***************************************************************************)
\* the number of events of evs of the given type
CountOf(evs, type) == Cardinality({k \in 1..Len(evs) : evs[k].type = type})

\* C32: (event order of a restore) restore_transactions emits all Evicted
\* events, one for each transaction it removed, before any Restored event,
\* and one Restored event for each transaction it added; the events come with
\* the pool the call leaves behind.
C32_RestoreEventOrder ==
    RestorePending =>
        \A order \in KeyOrders(txs_by_sender(reverted)) :
            LET r == restore_transactions(state, reverted, order)
                ev == r.events
                pool == r.state.transactions_sorted_fee
            IN  /\ \A k \in 1..Len(ev) :
                        ev[k].type = IF k <= CountOf(ev, "Evicted")
                                     THEN "Evicted" ELSE "Restored"
                /\ \A i \in TxIds :
                        /\ Cardinality(EventsOf(ev, "Restored", i)) <= 1
                        /\ Cardinality(EventsOf(ev, "Evicted", i)) <= 1
                /\ EventTxs(ev, "Restored") \subseteq reverted
                /\ pool \ sorted_fee \subseteq EventTxs(ev, "Restored")
                /\ sorted_fee \ pool \subseteq EventTxs(ev, "Evicted")
                /\ EventTxs(ev, "Evicted") \cap pool = {}

\* a restore that told of a removed and then of a restored transaction
C32_Witness ==
    /\ lastOp = "restore"
    /\ Len(events) >= 2
    /\ events[1].type = "Evicted"
    /\ events[Len(events)].type = "Restored"
    /\ events[Len(events)].tx \in sorted_fee

(***************************************************************************)
(* The size bound of block assembly (lib.rs:475-483).                      *)
(***************************************************************************)
\* the returned transactions the walk visits before t
TakenBefore(txs, t) == {u \in Range(txs) : TxLess(u, t)}

\* C33: (block assembly size bound) the sizes of the transactions that
\* get_transactions_for_block(max_size) returns sum to at most max_size (so
\* max_size - size never goes below zero); a transaction that does not fit
\* next to the ones taken before it is skipped and the walk goes on to the
\* transactions after it, until the budget left is below MIN_SIZE.
C33_BlockSizeBound ==
    lastOp = "get_transactions_for_block" =>
        LET max_size == query.args[1]
            txs == query.txs
        IN  /\ Cardinality(Range(txs)) = Len(txs)
            /\ Range(txs) \subseteq sorted_fee
            /\ SizeOf(Range(txs)) <= max_size
            /\ \A t \in sorted_fee :
                    (max_size - SizeOf(TakenBefore(txs, t))) % UsizeRange
                        = max_size - SizeOf(TakenBefore(txs, t))
            /\ \A t \in sorted_fee :
                    t \in Range(txs) <=>
                        SizeOf(TakenBefore(txs, t)) + t.size <= max_size
            /\ \A t \in sorted_fee : t.size >= MIN_SIZE

\* a transaction was skipped for its size and one after it was taken
C33_Witness ==
    /\ lastOp = "get_transactions_for_block"
    /\ \E t \in sorted_fee \ Range(query.txs), u \in Range(query.txs) :
        /\ TxLess(t, u)
        /\ t.size > query.args[1]

(***************************************************************************)
(* The staking contract in block assembly (lib.rs:432-473).                *)
(***************************************************************************)
\* the staking-contract sides of tx apply to db
StakingSidesOk(db, tx) ==
    /\ tx.sender = staking_contract_address => commit_outgoing_ok(db, tx)
    /\ tx.recipient = staking_contract_address =>
            commit_incoming_ok(
                IF tx.sender = staking_contract_address
                THEN commit_outgoing_transaction(db, tx) ELSE db, tx)

\* db after the staking-contract sides of tx
StakingSides(db, tx) ==
    LET sent == IF tx.sender = staking_contract_address
                THEN commit_outgoing_transaction(db, tx) ELSE db
    IN  IF tx.recipient = staking_contract_address
        THEN commit_incoming_transaction(sent, tx) ELSE sent

RECURSIVE StakingAfter(_, _)
\* db after the staking-contract sides of a list of transactions
StakingAfter(db, txs) ==
    IF txs = << >> THEN db
    ELSE StakingAfter(StakingSides(db, Head(txs)), Tail(txs))

\* the returned transactions the walk took before it came to t, in its order
TakenUpTo(txs, t) == SelectSeq(txs, LAMBDA u : TxLess(u, t))

\* C34: (staking contract in block assembly) get_transactions_for_block
\* leaves out a transaction whose staking-contract side fails and goes on
\* with the walk, and the simulation state a transaction is checked against
\* includes no transaction that was skipped: a pool transaction is returned
\* exactly when it fits and its staking-contract sides apply after those of
\* the returned transactions taken before it.
C34_StakingSimulation ==
    lastOp = "get_transactions_for_block" =>
        \A t \in sorted_fee :
            t \in Range(query.txs) <=>
                /\ SizeOf(TakenBefore(query.txs, t)) + t.size <= query.args[1]
                /\ StakingSidesOk(StakingAfter(accounts, TakenUpTo(query.txs, t)), t)

(***************************************************************************)
(* The result of an admission (lib.rs:352-389).                            *)
(***************************************************************************)
\* C35: (accepted means present) right after push_transaction(t) returns
\* Accepted the pool contains hash(t), also when the pool was at SIZE_MAX and
\* t ranks below every transaction of the pool.
C35_AcceptedMeansPresent ==
    Idle =>
        \A i \in TxIds :
            Outcome(i).ret = "Accepted" =>
                hash(i) \in DOMAIN Outcome(i).state.transactions_by_hash

(***************************************************************************)
(* The events of a restore replayed (lib.rs:695-757).                      *)
(***************************************************************************)
RECURSIVE Replay(_, _)
\* the fingerprints a listener holds that adds on Added and Restored and
\* removes on Evicted and Mined, after it was sent evs in order
Replay(held, evs) ==
    IF evs = << >> THEN held
    ELSE Replay(IF Head(evs).type \in {"Added", "Restored"}
                THEN held \cup {hash(Head(evs).tx)}
                ELSE held \ {hash(Head(evs).tx)},
                Tail(evs))

\* C36: (events replay to the pool) after restore_transactions returns, every
\* transaction it emitted Restored for is in the pool, and a listener that
\* held the fingerprints of the pool before the call and replays the events
\* of the call in emission order holds exactly the fingerprints of by_hash,
\* also when the SIZE_MAX trim removes a transaction the call just added.
C36_EventsReplay ==
    RestorePending =>
        \A order \in KeyOrders(txs_by_sender(reverted)) :
            LET r == restore_transactions(state, reverted, order) IN
                /\ EventTxs(r.events, "Restored") \subseteq r.state.transactions_sorted_fee
                /\ Replay(DOMAIN by_hash, r.events) = DOMAIN r.state.transactions_by_hash

(***************************************************************************)
(* What a reader can see (lib.rs:354-374, 605-614, 695-744).               *)
(***************************************************************************)
\* the thread looks at the indexes under a guard of the state lock
ReadsPool(t) == pc[t] \in {"scanning", "checking"}

\* C37: (atomic visibility to readers) while a mutating call changes the
\* indexes, from its state.write() to the end of that guard, no other thread
\* reads or changes them: a reader sees the pool as it was before the first
\* or as it is after the last index change of the call, never in between.
C37_AtomicVisibility ==
    \A t \in Threads :
        /\ pc[t] = "writing" =>
            /\ st_guards = [read |-> {}, upgradable |-> {}, write |-> {t}]
            /\ \A u \in Threads \ {t} :
                    ~ReadsPool(u) /\ pc[u] \notin {"writing", "blacklisting"}
        /\ ReadsPool(t) => t \in st_guards.read \cup st_guards.upgradable

\* a reader has asked for the pool while another call changes the indexes
C37_Witness ==
    \E t, u \in Threads :
        /\ pc[t] = "writing"
        /\ call(u) = "get_transactions_for_block"
        /\ pc[u] = "has_blockchain"

(***************************************************************************)
(* The inherents of the staking contract (traits.rs:508-765).              *)
(***************************************************************************)
\* what a Slash inherent may change in the staking contract
SlashState(tree_) ==
    [parked_set |-> tree_.contract.parked_set,
     current_disabled_slots |-> tree_.contract.current_disabled_slots,
     current_lost_rewards |-> tree_.contract.current_lost_rewards,
     previous_lost_rewards |-> tree_.contract.previous_lost_rewards]

\* the validator is parked, the slot is disabled and its reward is lost for
\* the batch the event of the slot belongs to
AlreadySlashed(staking_contract, slot, block_height) ==
    /\ slot.validator_address \in staking_contract.parked_set
    /\ slot.slot \in Bucket(staking_contract.current_disabled_slots,
                            slot.validator_address)
    /\ slot.slot \in
            IF batch_at(slot.event_block) < batch_at(block_height)
            THEN staking_contract.previous_lost_rewards
            ELSE staking_contract.current_lost_rewards

NothingNew == [newly_parked |-> FALSE, newly_disabled |-> FALSE, newly_lost_rewards |-> FALSE]

\* C38: (slash commit/revert round-trip) reverting a committed Slash inherent
\* at the height and with the receipt of its commit, the later ones having
\* been reverted before it, succeeds and restores parked_set,
\* current_disabled_slots, current_lost_rewards and previous_lost_rewards to
\* what they were before its commit; the Slash of a slot that is already
\* parked, disabled and without reward gets a receipt with nothing new, and the
\* revert with that receipt changes nothing.
C38_SlashRoundTrip ==
    /\ (outcome.call = "revert_inherent" /\ outcome.inherent.ty = "Slash") =>
            /\ outcome.result = "Ok"
            /\ SlashState(tree) = SlashState(outcome.original)
            /\ outcome.receipt = <<NothingNew>> => tree = outcome.prior
    /\ (outcome.call = "commit_inherent" /\ outcome.inherent.ty = "Slash"
            /\ outcome.result = "Ok") =>
            /\ outcome.receipt = <<NothingNew>> <=> tree = outcome.prior
            /\ LET slot == deserialize_slot(outcome.inherent.data)
                   was == outcome.prior.contract
               IN  AlreadySlashed(was, slot, outcome.block_height)
                        => outcome.receipt = <<NothingNew>>

\* the second of two Slash inherents is reverted: it had disabled a slot and
\* taken its reward, and the first one stays committed
C38_Witness ==
    /\ outcome.call = "revert_inherent"
    /\ outcome.inherent.ty = "Slash"
    /\ outcome.result = "Ok"
    /\ outcome.receipt # << >>
    /\ outcome.receipt[1].newly_disabled
    /\ outcome.receipt[1].newly_lost_rewards
    /\ Len(journal) = 1
    /\ journal[1].inherent.ty = "Slash"
    /\ tree.contract.current_disabled_slots # EmptyMap

\* the validators and the fields of the contract that only FinalizeEpoch changes
EpochState(tree_) ==
    [validators |-> tree_.validators,
     parked_set |-> tree_.contract.parked_set,
     active_validators |-> tree_.contract.active_validators,
     current_disabled_slots |-> tree_.contract.current_disabled_slots,
     previous_disabled_slots |-> tree_.contract.previous_disabled_slots]

\* C39: (finalization inherents) a committed FinalizeBatch or FinalizeEpoch
\* moves current_lost_rewards into previous_lost_rewards and empties
\* current_lost_rewards, with no receipt; FinalizeBatch changes nothing else,
\* and FinalizeEpoch marks every parked validator inactive at the block
\* height, takes it out of active_validators, empties parked_set and moves
\* current_disabled_slots into previous_disabled_slots; revert_inherent of
\* FinalizeBatch, FinalizeEpoch or Reward fails with InvalidForTarget.
C39_Finalization ==
    /\ (/\ outcome.call = "commit_inherent"
        /\ outcome.inherent.ty \in {"FinalizeBatch", "FinalizeEpoch"}
        /\ outcome.result = "Ok") =>
            LET was == outcome.prior.contract
                now == tree.contract
            IN  /\ now.previous_lost_rewards = was.current_lost_rewards
                /\ now.current_lost_rewards = {}
                /\ outcome.receipt = << >>
                /\ IF outcome.inherent.ty = "FinalizeBatch"
                   THEN EpochState(tree) = EpochState(outcome.prior)
                   ELSE /\ now.parked_set = {}
                        /\ now.active_validators = was.active_validators \ was.parked_set
                        /\ now.previous_disabled_slots = was.current_disabled_slots
                        /\ now.current_disabled_slots = EmptyMap
                        /\ DOMAIN tree.validators = DOMAIN outcome.prior.validators
                        /\ \A v \in DOMAIN tree.validators :
                                tree.validators[v] =
                                    IF v \in was.parked_set
                                    THEN <<outcome.block_height>>
                                    ELSE outcome.prior.validators[v]
    /\ (/\ outcome.call = "revert_inherent"
        /\ outcome.inherent.ty \in {"FinalizeBatch", "FinalizeEpoch", "Reward"}) =>
            /\ outcome.result = "InvalidForTarget"
            /\ tree = outcome.prior

\* the epoch was finalized with a validator parked, a slot disabled and a
\* reward lost
C39_Witness ==
    /\ outcome.call = "commit_inherent"
    /\ outcome.inherent.ty = "FinalizeEpoch"
    /\ outcome.result = "Ok"
    /\ outcome.prior.contract.parked_set # {}
    /\ outcome.prior.contract.parked_set # DOMAIN outcome.prior.validators
    /\ tree.contract.previous_disabled_slots # EmptyMap
    /\ tree.contract.previous_lost_rewards # {}

\* C40: (failed inherents change nothing) whenever commit_inherent returns an
\* error, the accounts tree is as it was before the call.
C40_FailedCommitWritesNothing ==
    (outcome.call = "commit_inherent" /\ outcome.result # "Ok") =>
        tree = outcome.prior

====
